---- MODULE Spec2Model ----
(***************************************************************************)
(* Entity Schema Manager: the entity scanner (entity-scanner.ts, kept at   *)
(* the end of docs/ARCHITECTURE.md), the API service (src/api-service.ts)  *)
(* and the plugin operations that drive them (main.ts).                    *)
(*                                                                         *)
(* JavaScript strings are sequences of one-character strings, so that      *)
(* startsWith, includes, trim, toLowerCase and the link regular            *)
(* expressions are computed and not assumed.  JavaScript objects and       *)
(* arrays live in a heap and are referred to by address, so that sharing   *)
(* between a copy and its original is visible.                             *)
(***************************************************************************)
EXTENDS Integers, Sequences, FiniteSets, TLC

VARIABLES
    heap,             \* address -> object: [k |-> "map" | "list", items |-> ...]
    cache,            \* metadataCache: file -> address of its frontmatter, 0 = none
    resolver,         \* behaviour of metadataCache.getFirstLinkpathDest
    hostChanges,      \* number of changes the host made to the vault's metadata
    schemas,          \* plugin.settings.schemas
    entityInstances,  \* EntityScanner.entityInstances
    scanOutcome,      \* how the last scanEntities call settled ("none" before the first)
    resolverCalls,    \* getFirstLinkpathDest calls made by the last scanEntities call
    notice,           \* the count shown by the last `Found N entities` notice, -1 = none
    completed,        \* history: results of the scans that ran to completion
    apiSchemas,       \* EntitySchemaAPIService.schemas
    callerSchemas,    \* array an API consumer got from getEntitySchemas
    callerEntities,   \* array an API consumer got from getEntitiesByType
    scansSinceChange, \* history: scans run since the scanner's inputs last changed
    call,             \* the last call of a single scanner method, with what it returned
    pc,               \* plugin operation -> the step of its program that runs next
    building,         \* plugin operations whose scan has begun and not yet returned
    files,            \* the vault: file name -> content, a sequence of lines
    backups,          \* the files created in entity-schema-backups, in order of creation
    backupFolder,     \* whether the folder entity-schema-backups exists
    backupBeforeOperations, \* plugin.settings.backupBeforeOperations
    bulk,             \* the frame of a performBulkPropertyAddition call
    schemaFile,       \* the vault's entity-schemas.json, as the host serves it
    schemaSource,     \* SchemaManager.schemaSource.type
    registered,       \* whether window['entity-schema-manager.api.v1'] holds the API
    waiters           \* consumer -> the frame of its waitForEntitySchemaAPI call

scannerVars == <<entityInstances, scanOutcome, resolverCalls, notice>>
hostVars    == <<cache, resolver, hostChanges>>
apiVars     == <<apiSchemas, callerSchemas, callerEntities>>

bulkVars    == <<files, backups, backupFolder, backupBeforeOperations, bulk>>
taskVars    == <<bulkVars, schemaFile, schemaSource, registered, waiters>>
opVars      == <<pc, building, taskVars>>

vars == <<heap, schemas, hostVars, scannerVars, completed, apiVars, scansSinceChange, call,
          opVars>>

----------------------------------------------------------------------------
(* Strings *)

UpperCase == <<"A","B","C","D","E","F","G","H","I","J","K","L","M",
               "N","O","P","Q","R","S","T","U","V","W","X","Y","Z">>
LowerCase == <<"a","b","c","d","e","f","g","h","i","j","k","l","m",
               "n","o","p","q","r","s","t","u","v","w","x","y","z">>

toLowerChar(c) ==
    IF \E i \in 1..26 : UpperCase[i] = c
    THEN LowerCase[CHOOSE i \in 1..26 : UpperCase[i] = c]
    ELSE c

toLowerCase(s) == [i \in 1..Len(s) |-> toLowerChar(s[i])]

IsSpace(c) == c \in {" ", "\t", "\n"}

RECURSIVE trimStart(_)
trimStart(s) == IF s # <<>> /\ IsSpace(Head(s)) THEN trimStart(Tail(s)) ELSE s

RECURSIVE trimEnd(_)
trimEnd(s) ==
    IF s # <<>> /\ IsSpace(s[Len(s)]) THEN trimEnd(SubSeq(s, 1, Len(s) - 1)) ELSE s

trim(s) == trimEnd(trimStart(s))

startsWith(s, p) == Len(p) <= Len(s) /\ SubSeq(s, 1, Len(p)) = p

endsWith(s, p) == Len(p) <= Len(s) /\ SubSeq(s, Len(s) - Len(p) + 1, Len(s)) = p

includes(s, p) == \E i \in 1..(Len(s) - Len(p) + 1) : SubSeq(s, i, i + Len(p) - 1) = p

\* the property names and string literals of the code, and the strings of the
\* scenarios
Lit ==
    [constructor  |-> <<"c","o","n","s","t","r","u","c","t","o","r">>,
     toString     |-> <<"t","o","S","t","r","i","n","g">>,
     tags         |-> <<"t","a","g","s">>,
     required     |-> <<"r","e","q","u","i","r","e","d">>,
     defaultValue |-> <<"d","e","f","a","u","l","t","V","a","l","u","e">>,
     type         |-> <<"t","y","p","e">>,
     string       |-> <<"s","t","r","i","n","g">>,
     name         |-> <<"n","a","m","e">>,
     is           |-> <<"i","s">>,
     role         |-> <<"r","o","l","e">>,
     email        |-> <<"e","m","a","i","l">>,
     linkP        |-> <<"[","[","P","]","]">>,
     hacked       |-> <<"H","a","c","k","e","d">>]

----------------------------------------------------------------------------
(* Values: the `unknown` of the source as a tagged variant *)

Undefined == [t |-> "undefined", v |-> <<>>]
Null      == [t |-> "null", v |-> <<>>]
Str(s)    == [t |-> "string", v |-> s]
Num(n)    == [t |-> "number", v |-> <<n>>]
Bool(b)   == [t |-> "boolean", v |-> <<b>>]
Ref(a)    == [t |-> "object", v |-> <<a>>]

Addr(x) == x.v[1]

\* x === y: no coercion, objects by identity
StrictEq(x, y) == x.t = y.t /\ x.v = y.v

\* the truthiness JavaScript's `if` and `&&` test
Truthy(x) ==
    CASE x.t = "undefined" -> FALSE
      [] x.t = "null"      -> FALSE
      [] x.t = "string"    -> x.v # <<>>
      [] x.t = "number"    -> x.v[1] # 0
      [] x.t = "boolean"   -> x.v[1]
      [] OTHER             -> TRUE

isArray(x) == x.t = "object" /\ heap[Addr(x)].k = "list"

\* the object has an entry of its own under `key`
hasOwn(a, key) == \E i \in 1..Len(heap[a].items) : heap[a].items[i].key = key

\* names every plain object inherits from Object.prototype (the ones used here)
InheritedKeys == {Lit.constructor, Lit.toString}

\* presence decided by the truthiness of the value
hasTruthyValue(a, key) ==
    \E i \in 1..Len(heap[a].items) :
        heap[a].items[i].key = key /\ Truthy(heap[a].items[i].val)

\* `key in obj`: own entries and inherited ones
hasKey(a, key) == hasOwn(a, key) \/ key \in InheritedKeys

\* `obj[key]` for the keys the objects here hold themselves
getKey(a, key) ==
    IF hasOwn(a, key)
    THEN heap[a].items[CHOOSE i \in 1..Len(heap[a].items) : heap[a].items[i].key = key].val
    ELSE Undefined

----------------------------------------------------------------------------
(* The vault: TFile objects in the order getMarkdownFiles returns them *)

TFile(path, name, basename) == [path |-> path, name |-> name, basename |-> basename]

Files == <<
    TFile(<<"e","/","P",".","m","d">>,     <<"P",".","m","d">>, <<"P">>),
    TFile(<<"n","/","a",".","m","d">>,     <<"a",".","m","d">>, <<"a">>),
    TFile(<<"n","x","/","b",".","m","d">>, <<"b",".","m","d">>, <<"b">>) >>

FileIds == 1..Len(Files)

\* path without the ".md" extension
pathNoExt(f) == SubSeq(Files[f].path, 1, Len(Files[f].path) - 3)

\* metadataCache.getFirstLinkpathDest(linkpath, ''): a file id, 0 for null.
\* "index" resolves the link paths the host's index knows (bare name, path
\* without extension, full path), "none" resolves nothing.
ResolverKinds == {"index", "none", "throws"}

getFirstLinkpathDest(linkpath) ==
    IF resolver = "index"
         /\ \E f \in FileIds : linkpath \in {Files[f].basename, pathNoExt(f), Files[f].path}
    THEN CHOOSE f \in FileIds : linkpath \in {Files[f].basename, pathNoExt(f), Files[f].path}
    ELSE 0

----------------------------------------------------------------------------
(* EntityScanner: link handling *)

\* /^\[\[.*\]\]$/.test(value.trim())
isObsidianLink(value) ==
    LET s == trim(value) IN
        /\ Len(s) >= 4
        /\ startsWith(s, <<"[","[">>)
        /\ endsWith(s, <<"]","]">>)
        /\ \A i \in 3..(Len(s) - 2) : s[i] # "\n"

\* value.match(/^\[\[([^|]+)(?:\|.*?)?\]\]$/): <<TRUE, group 1>> or <<FALSE, <<>> >>
linkMatch(value) ==
    IF ~(Len(value) >= 4 /\ startsWith(value, <<"[","[">>) /\ endsWith(value, <<"]","]">>))
    THEN <<FALSE, <<>> >>
    ELSE LET inner == SubSeq(value, 3, Len(value) - 2)
             bars  == {i \in 1..Len(inner) : inner[i] = "|"}
         IN  IF bars = {}
             THEN <<inner # <<>>, inner>>
             ELSE LET p == CHOOSE i \in bars : \A j \in bars : i <= j
                  IN  << p > 1 /\ \A i \in (p + 1)..Len(inner) : inner[i] # "\n",
                         SubSeq(inner, 1, p - 1) >>

extractLinkPath(value) ==
    LET group(match) == IF match[1] THEN trim(match[2]) ELSE value
    IN  IF isObsidianLink(value) THEN group(linkMatch(value)) ELSE value

\* compareFilePathWithString without the final partial match
compareFilePathExactly(f, compareString) ==
    \E form \in {toLowerCase(Files[f].path), toLowerCase(Files[f].basename),
                  toLowerCase(Files[f].name)} :
        form \in {toLowerCase(compareString), toLowerCase(extractLinkPath(compareString))}

compareFilePathWithString(f, compareString) ==
    LET matches(compareLower, extractedPath, path, basename, name) ==
            \/ path = compareLower \/ path = extractedPath
            \/ basename = compareLower \/ basename = extractedPath
            \/ name = compareLower \/ name = extractedPath
            \/ includes(path, extractedPath)
    IN  matches(toLowerCase(compareString), toLowerCase(extractLinkPath(compareString)),
                toLowerCase(Files[f].path), toLowerCase(Files[f].basename),
                toLowerCase(Files[f].name))

\* Result of an operation that can throw and that may call the host's link
\* resolver: r is "T", "F" or the error thrown, calls the number of
\* getFirstLinkpathDest calls made
Result(r, calls) == [r |-> r, calls |-> calls]

OfBool(b) == Result(IF b THEN "T" ELSE "F", 0)

\* compareLinksUsingAPI with the resolver's error caught and turned into false
compareLinksSwallowing(actualValue, expectedValue) ==
    IF resolver = "throws" THEN Result("F", 1)
    ELSE OfBool(toLowerCase(extractLinkPath(actualValue)) = toLowerCase(extractLinkPath(expectedValue)))

\* compareLinksUsingAPI that resolves both sides and compares their text only
compareLinksByText(actualValue, expectedValue) ==
    IF resolver = "throws" THEN Result("HostError", 1)
    ELSE Result(OfBool(toLowerCase(extractLinkPath(actualValue))
                         = toLowerCase(extractLinkPath(expectedValue))).r, 2)

compareLinksUsingAPI(actualValue, expectedValue) ==
    LET compareFiles(actualLinkPath, expectedLinkPath, actualFile, expectedFile) ==
            IF actualFile # 0 /\ expectedFile # 0
            THEN Files[actualFile].path = Files[expectedFile].path
            ELSE IF actualFile # 0
            THEN compareFilePathWithString(actualFile, expectedValue)
            ELSE IF expectedFile # 0
            THEN compareFilePathWithString(expectedFile, actualValue)
            ELSE toLowerCase(actualLinkPath) = toLowerCase(expectedLinkPath)
        resolve(actualLinkPath, expectedLinkPath) ==
            compareFiles(actualLinkPath, expectedLinkPath,
                         getFirstLinkpathDest(actualLinkPath),
                         getFirstLinkpathDest(expectedLinkPath))
    IN  IF resolver = "throws" THEN Result("HostError", 1)
        ELSE Result(OfBool(resolve(extractLinkPath(actualValue),
                                   extractLinkPath(expectedValue))).r, 2)

----------------------------------------------------------------------------
(* EntityScanner: value comparison *)

RECURSIVE comparePropertyValues(_, _)
RECURSIVE someExpected(_, _, _)

\* someExpected asking every expected value to compare equal
RECURSIVE everyExpected(_, _, _)
everyExpected(actualValue, items, i) ==
    IF i > Len(items) THEN OfBool(TRUE)
    ELSE LET then(r, rest) == Result(rest.r, r.calls + rest.calls)
             every(r) == IF r.r = "T"
                         THEN then(r, everyExpected(actualValue, items, i + 1))
                         ELSE r
         IN  every(comparePropertyValues(actualValue, items[i]))

\* expectedValue.some(expected => comparePropertyValues(actualValue, expected)),
\* from element i on
someExpected(actualValue, items, i) ==
    IF i > Len(items) THEN OfBool(FALSE)
    ELSE LET then(r, rest) == Result(rest.r, r.calls + rest.calls)
             some(r) == IF r.r = "F"
                        THEN then(r, someExpected(actualValue, items, i + 1))
                        ELSE r
         IN  some(comparePropertyValues(actualValue, items[i]))

\* comparePropertyValues where null and undefined are equal to one another
comparePropertyValuesLoose(actualValue, expectedValue) ==
    IF isArray(expectedValue)
    THEN someExpected(actualValue, heap[Addr(expectedValue)].items, 1)
    ELSE IF actualValue.t \in {"null", "undefined"} \/ expectedValue.t \in {"null", "undefined"}
    THEN OfBool(actualValue.t \in {"null", "undefined"}
                  /\ expectedValue.t \in {"null", "undefined"})
    ELSE IF expectedValue.t = "string" /\ actualValue.t = "string"
    THEN IF isObsidianLink(actualValue.v) \/ isObsidianLink(expectedValue.v)
         THEN compareLinksUsingAPI(actualValue.v, expectedValue.v)
         ELSE OfBool(toLowerCase(actualValue.v) = toLowerCase(expectedValue.v))
    ELSE OfBool(StrictEq(actualValue, expectedValue))

\* comparePropertyValues where plain strings are trimmed before they are compared
comparePropertyValuesTrimming(actualValue, expectedValue) ==
    IF isArray(expectedValue)
    THEN someExpected(actualValue, heap[Addr(expectedValue)].items, 1)
    ELSE IF actualValue.t \in {"null", "undefined"} \/ expectedValue.t \in {"null", "undefined"}
    THEN OfBool(StrictEq(actualValue, expectedValue))
    ELSE IF expectedValue.t = "string" /\ actualValue.t = "string"
    THEN IF isObsidianLink(actualValue.v) \/ isObsidianLink(expectedValue.v)
         THEN compareLinksUsingAPI(actualValue.v, expectedValue.v)
         ELSE OfBool(toLowerCase(trim(actualValue.v)) = toLowerCase(trim(expectedValue.v)))
    ELSE OfBool(StrictEq(actualValue, expectedValue))

comparePropertyValues(actualValue, expectedValue) ==
    IF isArray(expectedValue)
    THEN someExpected(actualValue, heap[Addr(expectedValue)].items, 1)
    ELSE IF actualValue.t \in {"null", "undefined"} \/ expectedValue.t \in {"null", "undefined"}
    THEN OfBool(StrictEq(actualValue, expectedValue))
    ELSE IF expectedValue.t = "string" /\ actualValue.t = "string"
    THEN IF isObsidianLink(actualValue.v) \/ isObsidianLink(expectedValue.v)
         THEN compareLinksUsingAPI(actualValue.v, expectedValue.v)
         ELSE OfBool(toLowerCase(actualValue.v) = toLowerCase(expectedValue.v))
    ELSE OfBool(StrictEq(actualValue, expectedValue))

----------------------------------------------------------------------------
(* EntityScanner: schema matching *)


\* a match that does not look at requiredProperties
ignoresRequiredProperties(fm, criteria) == TRUE

\* requiredProperties: every prop must be a key of the frontmatter
hasRequiredProperties(fm, criteria) ==
    \A i \in 1..Len(heap[Addr(criteria.requiredProperties)].items) :
        hasKey(fm, heap[Addr(criteria.requiredProperties)].items[i].v)

\* `if (criteria.folderPath) { if (!file.path.startsWith(...)) return false }`
folderCheck(f, criteria) ==
    Truthy(criteria.folderPath) => startsWith(Files[f].path, criteria.folderPath.v)

\* tag.includes(pattern): String.prototype.includes on a string,
\* Array.prototype.includes on an array, a TypeError on anything else
tagIncludes(tag, pattern) ==
    IF tag.t = "string" THEN IF includes(tag.v, pattern) THEN "T" ELSE "F"
    ELSE IF isArray(tag)
    THEN IF \E i \in 1..Len(heap[Addr(tag)].items) :
                StrictEq(heap[Addr(tag)].items[i], Str(pattern))
         THEN "T" ELSE "F"
    ELSE "TypeError"

\* tags.some(tag => tag.includes(pattern)), from element i on
RECURSIVE someTag(_, _, _)
someTag(tags, pattern, i) ==
    IF i > Len(tags) THEN "F"
    ELSE LET some(r) == IF r = "F" THEN someTag(tags, pattern, i + 1) ELSE r
         IN  some(tagIncludes(tags[i], pattern))

\* `if (criteria.tagPattern && frontmatter.tags)`
tagCheckApplies(fm, criteria) ==
    Truthy(criteria.tagPattern) /\ Truthy(getKey(fm, Lit.tags))

\* the body of the tag check: "T", "F" or the error thrown
matchesTagPattern(fm, criteria) ==
    LET elements(tags) == IF isArray(tags) THEN heap[Addr(tags)].items ELSE <<tags>>
    IN  someTag(elements(getKey(fm, Lit.tags)), criteria.tagPattern.v, 1)

\* the propertyValues loop, from entry i on: the first entry that does not
\* compare equal decides (false, or the error thrown)
RECURSIVE everyPropertyValue(_, _, _)
everyPropertyValue(fm, entries, i) ==
    IF i > Len(entries) THEN OfBool(TRUE)
    ELSE LET then(r, rest) == Result(rest.r, r.calls + rest.calls)
             every(r) == IF r.r = "T"
                         THEN then(r, everyPropertyValue(fm, entries, i + 1))
                         ELSE r
         IN  every(comparePropertyValues(getKey(fm, entries[i].key), entries[i].val))

matchesSchema(f, fm, schema) ==
    LET afterTags(criteria) ==
            IF Truthy(criteria.namePattern) /\ ~includes(Files[f].name, criteria.namePattern.v)
            THEN OfBool(FALSE)
            ELSE IF Truthy(criteria.propertyValues)
            THEN everyPropertyValue(fm, heap[Addr(criteria.propertyValues)].items, 1)
            ELSE OfBool(TRUE)
        tagCheck(criteria, hasMatchingTag) ==
            IF hasMatchingTag # "T" THEN Result(hasMatchingTag, 0) ELSE afterTags(criteria)
        matches(criteria) ==
            IF Truthy(criteria.requiredProperties) /\ ~hasRequiredProperties(fm, criteria)
            THEN OfBool(FALSE)
            ELSE IF ~folderCheck(f, criteria)
            THEN OfBool(FALSE)
            ELSE IF tagCheckApplies(fm, criteria)
            THEN tagCheck(criteria, matchesTagPattern(fm, criteria))
            ELSE afterTags(criteria)
    IN  matches(schema.matchCriteria)

----------------------------------------------------------------------------
(* EntityScanner: missing properties *)


\* first loop: keys of schema.properties whose definition is required
RECURSIVE missingFromProperties(_, _, _)
missingFromProperties(fm, properties, i) ==
    IF i > Len(properties) THEN <<>>
    ELSE (IF Truthy(getKey(Addr(properties[i].val), Lit.required)) /\ ~hasKey(fm, properties[i].key)
          THEN <<properties[i].key>> ELSE <<>>)
         \o missingFromProperties(fm, properties, i + 1)

\* second loop: matchCriteria.requiredProperties not yet in `missing`
RECURSIVE missingFromCriteria(_, _, _, _)
missingFromCriteria(fm, required, i, missing) ==
    IF i > Len(required) THEN missing
    ELSE missingFromCriteria(fm, required, i + 1,
            IF ~hasKey(fm, required[i].v) /\ ~(\E j \in 1..Len(missing) : missing[j] = required[i].v)
            THEN Append(missing, required[i].v) ELSE missing)

getMissingProperties(fm, schema) ==
    LET missing == missingFromProperties(fm, schema.properties, 1) IN
        IF Truthy(schema.matchCriteria.requiredProperties)
        THEN missingFromCriteria(fm, heap[Addr(schema.matchCriteria.requiredProperties)].items,
                                 1, missing)
        ELSE missing

----------------------------------------------------------------------------
(* EntityScanner.scanEntities *)

\* `if (!metadata?.frontmatter) continue`
skipsFile(f) == cache[f] = 0

EntityInstance(f, fm, schema) ==
    [file |-> f, entityType |-> schema.name, properties |-> Ref(fm),
     missingProperties |-> getMissingProperties(fm, schema)]

\* matchFile with the match of a later schema replacing an earlier one
RECURSIVE matchFileLastWins(_, _, _, _)
matchFileLastWins(f, fm, schemaSeq, j) ==
    IF j > Len(schemaSeq) THEN [settled |-> "resolved", pushed |-> <<>>, calls |-> 0]
    ELSE LET then(m, rest) ==
                 [rest EXCEPT !.calls = m.calls + rest.calls,
                              !.pushed = IF rest.pushed = <<>> /\ m.r = "T"
                                              /\ rest.settled = "resolved"
                                         THEN <<EntityInstance(f, fm, schemaSeq[j])>>
                                         ELSE rest.pushed]
             step(m) == IF m.r \in {"T", "F"}
                        THEN then(m, matchFileLastWins(f, fm, schemaSeq, j + 1))
                        ELSE [settled |-> m.r, pushed |-> <<>>, calls |-> m.calls]
         IN  step(matchesSchema(f, fm, schemaSeq[j]))

\* matchFile without the `break`: the loop goes on after a match
RECURSIVE matchFileNoBreak(_, _, _, _)
matchFileNoBreak(f, fm, schemaSeq, j) ==
    IF j > Len(schemaSeq) THEN [settled |-> "resolved", pushed |-> <<>>, calls |-> 0]
    ELSE LET then(m, rest) ==
                 [rest EXCEPT !.calls = m.calls + rest.calls,
                              !.pushed = (IF m.r = "T"
                                          THEN <<EntityInstance(f, fm, schemaSeq[j])>>
                                          ELSE <<>>) \o rest.pushed]
             step(m) == IF m.r \in {"T", "F"}
                        THEN then(m, matchFileNoBreak(f, fm, schemaSeq, j + 1))
                        ELSE [settled |-> m.r, pushed |-> <<>>, calls |-> m.calls]
         IN  step(matchesSchema(f, fm, schemaSeq[j]))

\* the inner loop over the schemas for one file, from schema j on: the
\* instances it pushes, and "resolved" or the error thrown on the way
RECURSIVE matchFile(_, _, _, _)
matchFile(f, fm, schemaSeq, j) ==
    IF j > Len(schemaSeq) THEN [settled |-> "resolved", pushed |-> <<>>, calls |-> 0]
    ELSE LET then(m, rest) == [rest EXCEPT !.calls = m.calls + rest.calls]
             step(m) == IF m.r = "T"
                        THEN [settled |-> "resolved",
                              pushed  |-> <<EntityInstance(f, fm, schemaSeq[j])>>,
                              calls   |-> m.calls]
                        ELSE IF m.r = "F"
                        THEN then(m, matchFile(f, fm, schemaSeq, j + 1))
                        ELSE [settled |-> m.r, pushed |-> <<>>, calls |-> m.calls]
         IN  step(matchesSchema(f, fm, schemaSeq[j]))

\* the outer loop over the files, from file f on, with the instances pushed so
\* far: how the call settles and what this.entityInstances then holds
RECURSIVE scanFrom(_, _, _, _)
scanFrom(schemaSeq, f, instances, calls) ==
    IF f > Len(Files)
    THEN [settled |-> "resolved", instances |-> instances, calls |-> calls]
    ELSE IF skipsFile(f) THEN scanFrom(schemaSeq, f + 1, instances, calls)
    ELSE LET step(m) ==
                 IF m.settled = "resolved"
                 THEN scanFrom(schemaSeq, f + 1, instances \o m.pushed, calls + m.calls)
                 ELSE [settled |-> m.settled, instances |-> instances \o m.pushed,
                       calls |-> calls + m.calls]
         IN  step(matchFile(f, cache[f], schemaSeq, 1))

\* a scan that keeps the instances held before it and adds to them
scanResultAppending(schemaSeq) == scanFrom(schemaSeq, 1, entityInstances, 0)

\* scanEntities starts from `this.entityInstances = []`
scanResult(schemaSeq) == scanFrom(schemaSeq, 1, <<>>, 0)

----------------------------------------------------------------------------
(* EntityScanner: views of the held instances *)

\* Array.prototype.join
RECURSIVE join(_, _)
join(strings, separator) ==
    IF strings = <<>> THEN <<>>
    ELSE IF Len(strings) = 1 THEN strings[1]
    ELSE strings[1] \o separator \o join(Tail(strings), separator)

\* `${instance.file.name}: missing ${instance.missingProperties.join(', ')}`
issueOf(instance) ==
    Files[instance.file].name \o <<":"," ","m","i","s","s","i","n","g"," ">>
        \o join(instance.missingProperties, <<",", " ">>)

\* the loop of getValidationSummary from instance k on
RECURSIVE summaryFrom(_, _)
summaryFrom(k, summary) ==
    IF k > Len(entityInstances) THEN summary
    ELSE summaryFrom(k + 1,
            IF Len(entityInstances[k].missingProperties) = 0
            THEN [summary EXCEPT !.total = @ + 1, !.valid = @ + 1]
            ELSE [summary EXCEPT !.total = @ + 1,
                                 !.issues = Append(@, issueOf(entityInstances[k]))])

getValidationSummary == summaryFrom(1, [total |-> 0, valid |-> 0, issues |-> <<>>])

\* a drift view that returns every held instance
heldInstances == entityInstances

getEntitiesWithDrift ==
    SelectSeq(entityInstances, LAMBDA e : Len(e.missingProperties) > 0)

----------------------------------------------------------------------------
(* The objects of the scenarios: schema parts and frontmatter variants *)

Entry(key, val) == [key |-> key, val |-> val]
Map(items)  == [k |-> "map", items |-> items]
List(items) == [k |-> "list", items |-> items]


\* addresses 1..10: the parts of the schemas that are objects of their own
\* (every schema has its own, as JSON.parse and getDefaultSchemas build
\* them), and the empty array and object a template default allocates
SchemaObjects == <<
    Map(<<Entry(Lit.type, Str(Lit.string)), Entry(Lit.required, Bool(TRUE))>>),  \* 1: Person name
    Map(<<Entry(Lit.type, Str(Lit.string)), Entry(Lit.required, Bool(TRUE))>>),  \* 2: Person role
    List(<<Str(Lit.name), Str(Lit.is)>>),                                     \* 3: Person
    Map(<<Entry(Lit.is, Str(Lit.linkP))>>),                                   \* 4: Person
    Map(<<Entry(Lit.type, Str(Lit.string)), Entry(Lit.required, Bool(TRUE))>>),  \* 5: Generic name
    List(<<Str(Lit.name)>>),                                               \* 6: Generic
    Map(<<Entry(Lit.type, Str(Lit.string)), Entry(Lit.required, Bool(TRUE))>>),  \* 7: Tagged name
    List(<<Str(Lit.name)>>),                                               \* 8: Tagged
    List(<<>>),                                                         \* 9: a fresh []
    Map(<<>>) >>                                                        \* 10: a fresh {}

\* the address of object v of file f
FileAddr(f, v) == 10 * (f + 1) + v

\* addresses FileAddr(f, 1..9): the frontmatter objects file f can have
FrontmatterObjects(f) == <<
    Map(<<>>),                                                            \* 1
    Map(<<Entry(Lit.name, Str(<<"A">>))>>),                                  \* 2
    Map(<<Entry(Lit.name, Str(<<"A">>)), Entry(Lit.is, Str(Lit.linkP))>>),         \* 3
    Map(<<Entry(Lit.name, Str(<<"A">>)), Entry(Lit.is, Str(<<"p">>))>>),        \* 4
    Map(<<Entry(Lit.name, Str(<<"A">>)), Entry(Lit.tags, Ref(FileAddr(f, 9)))>>), \* 5
    Map(<<Entry(Lit.name, Str(<<"A">>)), Entry(Lit.tags, Num(5))>>),            \* 6
    Map(<<Entry(Lit.name, Str(<<>>)), Entry(Lit.is, Str(<<>>))>>),              \* 7
    Map(<<Entry(Lit.name, Str(<<"A">>)), Entry(Lit.tags, Str(<<"q">>))>>),      \* 8
    List(<<Str(<<"x","y">>)>>) >>                                         \* 9: tags of 5


\* the address of object i of the single-method scenarios
CallAddr(i) == 50 + i

\* addresses CallAddr(1..19): expected arrays, frontmatter objects and schema
\* parts passed to single methods, and the object a template is built in
CallObjects == <<
    List(<<>>),                                                          \* 1: []
    List(<<Null>>),                                                      \* 2: [null]
    List(<<Str(<<"x">>), Str(<<"Y">>)>>),                                \* 3: ['x','Y']
    List(<<Str(<<"x">>), Str(Lit.linkP)>>),                                 \* 4: ['x','[[P]]']
    List(<<Num(1), Ref(CallAddr(2))>>),                                  \* 5: [1,[null]]
    Map(<<Entry(Lit.is, Str(<<"x">>))>>),                                   \* 6: {is:'x'}
    Map(<<Entry(Lit.name, Str(<<>>)), Entry(Lit.is, Bool(FALSE)),
          Entry(Lit.role, Num(0)), Entry(Lit.email, Null)>>),                  \* 7: falsy values
    Map(<<>>),                                                           \* 8: {}
    Map(<<Entry(Lit.name, Str(<<"A">>)), Entry(Lit.email, Str(<<"x">>))>>),    \* 9
    Map(<<Entry(Lit.type, Str(Lit.string)), Entry(Lit.required, Bool(TRUE))>>),   \* 10: required
    Map(<<Entry(Lit.type, Str(Lit.string)), Entry(Lit.required, Bool(FALSE))>>),  \* 11: optional
    Map(<<Entry(Lit.type, Str(Lit.string))>>),                                 \* 12: unmarked
    List(<<Str(Lit.name), Str(Lit.is)>>),                                      \* 13
    List(<<Str(Lit.is), Str(Lit.name), Str(Lit.is)>>),                            \* 14
    Map(<<Entry(Lit.type, Str(Lit.string)), Entry(Lit.required, Bool(TRUE))>>),   \* 15: required
    List(<<Str(Lit.toString), Str(Lit.role)>>),                                \* 16
    Map(<<Entry(Lit.type, Str(Lit.string)), Entry(Lit.required, Bool(TRUE))>>),   \* 17: required
    Map(<<>>),                                                           \* 18: a template
    Map(<<Entry(Lit.is, Ref(CallAddr(3)))>>) >>                          \* 19: {is:['x','Y']}

Addrs ==
    (1..Len(SchemaObjects)) \cup {FileAddr(f, v) : f \in FileIds, v \in 1..9}
        \cup {CallAddr(i) : i \in 1..Len(CallObjects)}

InitialHeap ==
    [a \in Addrs |-> IF a <= Len(SchemaObjects) THEN SchemaObjects[a]
                     ELSE IF a > CallAddr(0) THEN CallObjects[a - CallAddr(0)]
                     ELSE FrontmatterObjects((a \div 10) - 1)[a % 10]]

\* the frontmatter variants the host can give each file (0: no frontmatter)
VariantsOf(f) ==
    CASE f = 1 -> {0, 2}
      [] f = 2 -> 0..8
      [] OTHER -> {0, 2, 3, 6}

CacheOf(v) == [f \in FileIds |-> IF v[f] = 0 THEN 0 ELSE FileAddr(f, v[f])]

Caches == {CacheOf(v) : v \in {w \in [FileIds -> 0..8] : \A f \in FileIds : w[f] \in VariantsOf(f)}}

NoCriteria ==
    [requiredProperties |-> Undefined, folderPath |-> Undefined, tagPattern |-> Undefined,
     namePattern |-> Undefined, propertyValues |-> Undefined]

Schema(name, properties, matchCriteria) ==
    [name |-> name, properties |-> properties, matchCriteria |-> matchCriteria]

Person ==
    Schema(<<"P","e","r","s","o","n">>,
           <<Entry(Lit.name, Ref(1)), Entry(Lit.role, Ref(2))>>,
           [NoCriteria EXCEPT !.requiredProperties = Ref(3),
                              !.folderPath = Str(<<"n">>),
                              !.propertyValues = Ref(4)])

Generic ==
    Schema(<<"G","e","n","e","r","i","c">>,
           <<Entry(Lit.name, Ref(5))>>,
           [NoCriteria EXCEPT !.requiredProperties = Ref(6)])

Tagged ==
    Schema(<<"T","a","g","g","e","d">>,
           <<Entry(Lit.name, Ref(7))>>,
           [NoCriteria EXCEPT !.requiredProperties = Ref(8),
                              !.tagPattern = Str(<<"x">>)])

Anything == Schema(<<"A","n","y">>, <<>>, NoCriteria)

SchemaSequences ==
    { <<Person, Generic>>, <<Generic, Person>>, <<Tagged, Generic>>, <<Anything>> }

----------------------------------------------------------------------------
(* EntitySchemaAPIService *)


\* { ...schema, properties: { ...schema.properties }, matchCriteria: { ...schema.matchCriteria } }:
\* a new schema object, a new properties object and a new matchCriteria object
\* whose members are the members of the originals
copySchema(schema) ==
    [name          |-> schema.name,
     properties    |-> [i \in 1..Len(schema.properties) |->
                           Entry(schema.properties[i].key, schema.properties[i].val)],
     matchCriteria |-> [requiredProperties |-> schema.matchCriteria.requiredProperties,
                        folderPath         |-> schema.matchCriteria.folderPath,
                        tagPattern         |-> schema.matchCriteria.tagPattern,
                        namePattern        |-> schema.matchCriteria.namePattern,
                        propertyValues     |-> schema.matchCriteria.propertyValues]]

\* what updateSchemas stores and what getEntitySchemas returns
copySchemas(schemaSeq) == [i \in 1..Len(schemaSeq) |-> copySchema(schemaSeq[i])]

getEntitySchemas(cached) == copySchemas(cached)

getEntityTypeNames(cached) == [i \in 1..Len(cached) |-> cached[i].name]

hasEntityType(cached, entityType) ==
    /\ entityType # <<>>
    /\ \E i \in 1..Len(cached) : cached[i].name = entityType

getDefaultValueForPropertyType(type) ==
    CASE type = Str(Lit.string)                          -> Str(<<>>)
      [] type = Str(<<"n","u","m","b","e","r">>)       -> Num(0)
      [] type = Str(<<"b","o","o","l","e","a","n">>)   -> Bool(FALSE)
      [] type = Str(<<"a","r","r","a","y">>)           -> Ref(9)
      [] type = Str(<<"o","b","j","e","c","t">>)       -> Ref(10)
      [] OTHER                                         -> Null

getDefaultValueForProperty(propDef) ==
    IF getKey(propDef, Lit.defaultValue).t # "undefined"
    THEN getKey(propDef, Lit.defaultValue)
    ELSE getDefaultValueForPropertyType(getKey(propDef, Lit.type))

\* template[key] = val on the entries of a plain object
setEntry(entries, key, val) ==
    IF \E i \in 1..Len(entries) : entries[i].key = key
    THEN [i \in 1..Len(entries) |-> IF entries[i].key = key THEN Entry(key, val) ELSE entries[i]]
    ELSE Append(entries, Entry(key, val))

RECURSIVE templateRequired(_, _, _)
templateRequired(required, i, template) ==
    IF i > Len(required) THEN template
    ELSE templateRequired(required, i + 1,
            IF \E j \in 1..Len(template) : template[j].key = required[i].v
            THEN template
            ELSE Append(template, Entry(required[i].v, getDefaultValueForPropertyType(Str(Lit.string)))))

RECURSIVE templateValues(_, _, _)
templateValues(values, i, template) ==
    IF i > Len(values) THEN template
    ELSE templateValues(values, i + 1, setEntry(template, values[i].key, values[i].val))

\* the entries of the object getEntityTemplate returns
getEntityTemplate(cached, entityType) ==
    IF entityType = <<>> \/ ~(\E i \in 1..Len(cached) : cached[i].name = entityType)
    THEN <<>>
    ELSE LET schema == cached[CHOOSE i \in 1..Len(cached) :
                                 /\ cached[i].name = entityType
                                 /\ \A h \in 1..(i - 1) : cached[h].name # entityType]
             t1 == [i \in 1..Len(schema.properties) |->
                       Entry(schema.properties[i].key,
                             getDefaultValueForProperty(Addr(schema.properties[i].val)))]
             t2 == IF Truthy(schema.matchCriteria.requiredProperties)
                   THEN templateRequired(heap[Addr(schema.matchCriteria.requiredProperties)].items,
                                         1, t1)
                   ELSE t1
         IN  IF Truthy(schema.matchCriteria.propertyValues)
             THEN templateValues(heap[Addr(schema.matchCriteria.propertyValues)].items, 1, t2)
             ELSE t2

\* EntityScanner.getEntitiesByType
scannerEntitiesByType(entityType) ==
    SelectSeq(entityInstances, LAMBDA e : e.entityType = entityType)

\* { ...entity, properties: { ...entity.properties }, missingProperties: [...] }:
\* the copy's properties object is new, its members are those of the original
copyEntity(entity) ==
    [file              |-> entity.file,
     entityType        |-> entity.entityType,
     properties        |-> [i \in 1..Len(heap[Addr(entity.properties)].items) |->
                               Entry(heap[Addr(entity.properties)].items[i].key,
                                     heap[Addr(entity.properties)].items[i].val)],
     missingProperties |-> [i \in 1..Len(entity.missingProperties) |-> entity.missingProperties[i]]]

\* EntitySchemaAPIService.getEntitiesByType
getEntitiesByType(entityType) ==
    IF entityType = <<>> THEN <<>>
    ELSE [k \in 1..Len(scannerEntitiesByType(entityType)) |->
             copyEntity(scannerEntitiesByType(entityType)[k])]

\* EntityScanner.getEntitiesGroupedByType: the entries of the object the reduce
\* builds, and whether it threw a TypeError.  `groups[entity.entityType]` is
\* read through the prototype chain: for a type named like a member of
\* Object.prototype it is that member, truthy, and its `push` is not a function
getEntitiesGroupedByType ==
    LET RECURSIVE groupFrom(_, _)
        groupFrom(k, groups) ==
            IF k > Len(entityInstances) THEN [threw |-> FALSE, entries |-> groups]
            ELSE IF \E j \in 1..Len(groups) : groups[j].key = entityInstances[k].entityType
                 THEN groupFrom(k + 1,
                         [j \in 1..Len(groups) |->
                             IF groups[j].key = entityInstances[k].entityType
                             THEN Entry(groups[j].key, Append(groups[j].val, entityInstances[k]))
                             ELSE groups[j]])
                 ELSE IF entityInstances[k].entityType \in InheritedKeys
                      THEN [threw |-> TRUE, entries |-> <<>>]
                      ELSE groupFrom(k + 1,
                              Append(groups, Entry(entityInstances[k].entityType,
                                                   <<entityInstances[k]>>)))
    IN  groupFrom(1, <<>>)

\* a count that does not ask hasEntityType first
getEntityCountOfHeld(cached, entityType) ==
    IF entityType.t = "string" THEN Len(scannerEntitiesByType(entityType.v)) ELSE 0

\* EntitySchemaAPIService.getEntityCount; entityType is any value
getEntityCount(cached, entityType) ==
    IF entityType.t = "string" /\ hasEntityType(cached, entityType.v)
    THEN Len(scannerEntitiesByType(entityType.v))
    ELSE 0

\* EntitySchemaAPIService.getEntitySummary: the entries of the object it
\* returns; it throws when getEntitiesGroupedByType does
getEntitySummary(cached) ==
    LET RECURSIVE known(_, _)
        known(i, summary) ==
            IF i > Len(cached) THEN summary
            ELSE known(i + 1, setEntry(summary, cached[i].name, 0))
        RECURSIVE counted(_, _, _)
        counted(groups, j, summary) ==
            IF j > Len(groups) THEN summary
            ELSE counted(groups, j + 1, setEntry(summary, groups[j].key, Len(groups[j].val)))
        from(grouped) ==
            [threw   |-> grouped.threw,
             entries |-> IF grouped.threw THEN <<>>
                         ELSE counted(grouped.entries, 1, known(1, <<>>))]
    IN  from(getEntitiesGroupedByType)

\* EntitySchemaAPIService.getEntityValidation; entityType is any value
getEntityValidation(cached, entityType) ==
    IF ~(entityType.t = "string" /\ hasEntityType(cached, entityType.v))
    THEN [total |-> 0, valid |-> 0, withIssues |-> 0, issues |-> <<>>]
    ELSE LET from(entities) ==
                 [total      |-> Len(entities),
                  valid      |-> Len(SelectSeq(entities,
                                        LAMBDA e : Len(e.missingProperties) = 0)),
                  withIssues |-> Len(SelectSeq(entities,
                                        LAMBDA e : Len(e.missingProperties) # 0)),
                  issues     |-> [k \in 1..Len(SelectSeq(entities,
                                        LAMBDA e : Len(e.missingProperties) # 0)) |->
                                     issueOf(SelectSeq(entities,
                                        LAMBDA e : Len(e.missingProperties) # 0)[k])]]
         IN  from(scannerEntitiesByType(entityType.v))

----------------------------------------------------------------------------
(* The content of values, objects followed to their members *)

RECURSIVE Deep(_)
Deep(x) ==
    IF x.t # "object" THEN x
    ELSE [t |-> heap[Addr(x)].k,
          v |-> [i \in 1..Len(heap[Addr(x)].items) |->
                    IF heap[Addr(x)].k = "map"
                    THEN Entry(heap[Addr(x)].items[i].key, Deep(heap[Addr(x)].items[i].val))
                    ELSE Deep(heap[Addr(x)].items[i])]]

DeepEntries(entries) == [i \in 1..Len(entries) |-> Entry(entries[i].key, Deep(entries[i].val))]

DeepSchema(schema) ==
    [name          |-> schema.name,
     properties    |-> DeepEntries(schema.properties),
     matchCriteria |-> [requiredProperties |-> Deep(schema.matchCriteria.requiredProperties),
                        folderPath         |-> schema.matchCriteria.folderPath,
                        tagPattern         |-> schema.matchCriteria.tagPattern,
                        namePattern        |-> schema.matchCriteria.namePattern,
                        propertyValues     |-> Deep(schema.matchCriteria.propertyValues)]]

\* what getEntitySchemas, getEntityTypeNames and getEntityTemplate return for
\* the cached schemas
ApiView(cached) ==
    [schemas   |-> [i \in 1..Len(cached) |-> DeepSchema(getEntitySchemas(cached)[i])],
     names     |-> getEntityTypeNames(cached),
     templates |-> [i \in 1..Len(cached) |->
                       DeepEntries(getEntityTemplate(cached, cached[i].name))]]

DeepInstance(entity) ==
    [file              |-> entity.file,
     entityType        |-> entity.entityType,
     properties        |-> Deep(entity.properties),
     missingProperties |-> entity.missingProperties]

\* what the scanner holds
HeldView == [k \in 1..Len(entityInstances) |-> DeepInstance(entityInstances[k])]

----------------------------------------------------------------------------
(* The scanner under a changing vault *)

MaxHostChanges == 1

\* The operations of EntitySchemaPlugin that scan, as the steps they run
\* between two returns to the event loop.  "wait": the operation calls
\* schemaManager.reloadSchemas() or bulkOperations.performBulkPropertyAddition()
\* and awaits it; "assign": `this.settings.schemas = <the loaded schemas>` and
\* the call of saveSettings; "scan": the call of EntitySchemaPlugin.scanEntities,
\* which runs EntityScanner.scanEntities; "update": apiService.updateSchemas
Program ==
    [load    |-> <<"scan", "update">>,
     command |-> <<"scan", "update">>,
     reload  |-> <<"wait", "assign", "scan", "update", "update">>,
     bulk    |-> <<"wait", "scan", "update">>]

\* the content of the files of the vault before any bulk operation: a file
\* with a frontmatter block and a file without one
InitialFiles ==
    [a |-> <<"---", "name: A", "---", "text">>,
     b |-> <<"text">>]

\* performBulkPropertyAddition has not been called
NoBulk == [at |-> "idle", entities |-> <<>>, i |-> 0, content |-> <<>>,
           successCount |-> 0, errorCount |-> 0]

BulkIdle ==
    /\ files = InitialFiles
    /\ backups = <<>>
    /\ backupFolder = FALSE
    /\ backupBeforeOperations = TRUE
    /\ bulk = NoBulk

\* the vault has no entity-schemas.json
NoFile == [state |-> "absent", value |-> Undefined]

\* the plugins that use the API
Consumers == {"c1", "c2"}

\* the consumer has not called waitForEntitySchemaAPI
NoWait == [at |-> "idle", timeout |-> 0, attempts |-> 0, settlements |-> 0]

\* the schema manager as constructed, the API registered by onload and no
\* consumer waiting for it
TasksIdle ==
    /\ BulkIdle
    /\ schemaFile = NoFile
    /\ schemaSource = "hardcoded"
    /\ registered = TRUE
    /\ waiters = [c \in Consumers |-> NoWait]

\* no operation of the plugin is under way
OpsIdle ==
    /\ pc = [op \in DOMAIN Program |-> 1]
    /\ building = {}
    /\ TasksIdle

ApiIdle ==
    /\ apiSchemas = <<>>
    /\ callerSchemas = <<>>
    /\ callerEntities = <<>>

\* no single method has been called
NoCall == [op |-> "none", args |-> <<>>, ret |-> <<>>]

\* the history of the scanner's inputs: heap, cache, resolver and schemas
ScanInputs == <<heap, cache, resolver, schemas>>

\* the history counts no further than this
MaxScansNoted == 2

NoteInputs == scansSinceChange' = IF ScanInputs' # ScanInputs THEN 0 ELSE scansSinceChange

NoteScan ==
    scansSinceChange' = IF scansSinceChange < MaxScansNoted THEN scansSinceChange + 1
                        ELSE scansSinceChange

Init ==
    /\ heap = InitialHeap
    /\ cache \in Caches
    /\ resolver \in ResolverKinds
    /\ hostChanges = 0
    /\ schemas \in SchemaSequences
    /\ entityInstances = <<>>
    /\ scanOutcome = "none"
    /\ resolverCalls = 0
    /\ notice = -1
    /\ completed = {<<>>}
    /\ scansSinceChange = 0
    /\ call = NoCall
    /\ OpsIdle
    /\ ApiIdle

\* EntityScanner.scanEntities(schemas): the body has no await, it runs from
\* `this.entityInstances = []` to its return or throw without interruption
scanEntities(schemaSeq) ==
    \E r \in {scanResult(schemaSeq)} :
        /\ entityInstances' = r.instances
        /\ scanOutcome' = r.settled
        /\ resolverCalls' = r.calls
        /\ notice' = IF r.settled = "resolved" THEN Len(r.instances) ELSE notice

\* a scanEntities call; `completed` records its result when it ran to completion
Scan ==
    /\ scanEntities(schemas)
    /\ completed' = IF scanOutcome' = "resolved"
                    THEN completed \cup {entityInstances'}
                    ELSE completed
    /\ NoteScan
    /\ UNCHANGED <<heap, schemas, hostVars, apiVars, call, opVars>>

\* the host re-parses a file: its cache entry becomes another frontmatter object
HostChange ==
    /\ hostChanges < MaxHostChanges
    /\ \E f \in FileIds : \E v \in VariantsOf(f) :
          /\ cache[f] # (IF v = 0 THEN 0 ELSE FileAddr(f, v))
          /\ cache' = [cache EXCEPT ![f] = IF v = 0 THEN 0 ELSE FileAddr(f, v)]
    /\ hostChanges' = hostChanges + 1
    /\ UNCHANGED <<heap, schemas, resolver, scannerVars, completed, apiVars, call, opVars>>
    /\ NoteInputs

Next == Scan \/ HostChange

Spec == Init /\ [][Next]_vars

----------------------------------------------------------------------------
(* The API service and the consumers of its schemas *)

ScannerIdle ==
    /\ entityInstances = <<>>
    /\ scanOutcome = "none"
    /\ resolverCalls = 0
    /\ notice = -1
    /\ completed = {<<>>}
    /\ scansSinceChange = 0
    /\ call = NoCall
    /\ OpsIdle

InitApi ==
    /\ heap = InitialHeap
    /\ cache = CacheOf(<<2, 5, 3>>)
    /\ resolver = "index"
    /\ hostChanges = 0
    /\ schemas \in {<<Person, Generic>>, <<Tagged, Generic>>}
    /\ ScannerIdle
    /\ ApiIdle

\* EntitySchemaAPIService.updateSchemas(settings.schemas), as onload calls it
UpdateSchemas ==
    /\ apiSchemas' = copySchemas(schemas)
    /\ UNCHANGED <<heap, schemas, hostVars, scannerVars, completed, callerSchemas,
                   callerEntities, call, opVars>>
    /\ NoteInputs

\* a consumer calls api.getEntitySchemas() and keeps the array
GetEntitySchemas ==
    /\ callerSchemas' = getEntitySchemas(apiSchemas)
    /\ UNCHANGED <<heap, schemas, hostVars, scannerVars, completed, apiSchemas,
                   callerEntities, call, opVars>>
    /\ NoteInputs


\* obj[key] = val on a plain object of the heap
setKey(a, key, val) == [heap EXCEPT ![a].items = setEntry(heap[a].items, key, val)]

\* The mutations below are made on one of the two arrays a caller holds: the
\* one that was passed to updateSchemas (settings.schemas) or the one
\* getEntitySchemas returned.

\* array[i].name = 'Hacked'
MutateName ==
    /\ \/ \E i \in 1..Len(schemas) :
             /\ schemas' = [schemas EXCEPT ![i].name = Lit.hacked]
             /\ UNCHANGED callerSchemas
       \/ \E i \in 1..Len(callerSchemas) :
             /\ callerSchemas' = [callerSchemas EXCEPT ![i].name = Lit.hacked]
             /\ UNCHANGED schemas
    /\ UNCHANGED <<heap, hostVars, scannerVars, completed, apiSchemas, callerEntities, call, opVars>>
    /\ NoteInputs

\* array[i].properties[key].required = false
MutatePropertyDefinition ==
    /\ \E held \in {schemas, callerSchemas} : \E i \in 1..Len(held) :
          \E p \in 1..Len(held[i].properties) :
             heap' = setKey(Addr(held[i].properties[p].val), Lit.required, Bool(FALSE))
    /\ UNCHANGED <<schemas, hostVars, scannerVars, completed, apiVars, call, opVars>>
    /\ NoteInputs

\* array[i].matchCriteria.requiredProperties[0] = 'Hacked'
MutateRequiredProperties ==
    /\ \E held \in {schemas, callerSchemas} : \E i \in 1..Len(held) :
          /\ Truthy(held[i].matchCriteria.requiredProperties)
          /\ heap[Addr(held[i].matchCriteria.requiredProperties)].items # <<>>
          /\ heap' = [heap EXCEPT ![Addr(held[i].matchCriteria.requiredProperties)].items[1] =
                                      Str(Lit.hacked)]
    /\ UNCHANGED <<schemas, hostVars, scannerVars, completed, apiVars, call, opVars>>
    /\ NoteInputs

\* array[i].matchCriteria.propertyValues[key] = 'Hacked'
MutatePropertyValues ==
    /\ \E held \in {schemas, callerSchemas} : \E i \in 1..Len(held) :
          /\ Truthy(held[i].matchCriteria.propertyValues)
          /\ heap' = setKey(Addr(held[i].matchCriteria.propertyValues), Lit.is, Str(Lit.hacked))
    /\ UNCHANGED <<schemas, hostVars, scannerVars, completed, apiVars, call, opVars>>
    /\ NoteInputs

MutateSchemas ==
    \/ MutateName
    \/ MutatePropertyDefinition
    \/ MutateRequiredProperties
    \/ MutatePropertyValues

NextApi == UpdateSchemas \/ GetEntitySchemas \/ MutateSchemas

SpecApi == InitApi /\ [][NextApi]_vars

----------------------------------------------------------------------------
(* The API service and the consumers of its entities *)

\* the last schema is named like a member of Object.prototype and has no
\* criteria, so every file with frontmatter matches it
InitEntities ==
    /\ heap = InitialHeap
    /\ cache \in {CacheOf(<<2, 5, 3>>), CacheOf(<<0, 5, 2>>), CacheOf(<<2, 3, 0>>)}
    /\ resolver = "index"
    /\ hostChanges = 0
    /\ schemas \in SchemaSequences \cup {<<Schema(Lit.toString, <<>>, NoCriteria)>>}
    /\ ScannerIdle
    /\ ApiIdle

\* EntitySchemaPlugin.scanEntities: the scan, and updateSchemas when it resolved
PluginScan ==
    /\ scanEntities(schemas)
    /\ apiSchemas' = IF scanOutcome' = "resolved"
                     THEN copySchemas(schemas) ELSE apiSchemas
    /\ NoteScan
    /\ UNCHANGED <<heap, schemas, hostVars, completed, callerSchemas, callerEntities, call, opVars>>

\* a consumer calls api.getEntitiesByType(entityType) and keeps the array
GetEntitiesByType ==
    /\ \E entityType \in {schemas[i].name : i \in 1..Len(schemas)} \cup {<<>>} :
          callerEntities' = getEntitiesByType(entityType)
    /\ UNCHANGED <<heap, schemas, hostVars, scannerVars, completed, apiSchemas, callerSchemas, call, opVars>>
    /\ NoteInputs

\* entities[k].properties[key] = 'Hacked' on the array getEntitiesByType returned
MutateEntityProperty ==
    /\ \E k \in 1..Len(callerEntities) :
          callerEntities' = [callerEntities EXCEPT
                                ![k].properties = setEntry(@, Lit.name, Str(Lit.hacked))]
    /\ UNCHANGED <<heap, schemas, hostVars, scannerVars, completed, apiSchemas, callerSchemas, call, opVars>>
    /\ NoteInputs

\* entities[k].properties[key][0] = 'Hacked' where the value is an array
MutateEntityNestedValue ==
    /\ \E k \in 1..Len(callerEntities) : \E p \in 1..Len(callerEntities[k].properties) :
          /\ isArray(callerEntities[k].properties[p].val)
          /\ heap[Addr(callerEntities[k].properties[p].val)].items # <<>>
          /\ heap' = [heap EXCEPT ![Addr(callerEntities[k].properties[p].val)].items[1] =
                                      Str(Lit.hacked)]
    /\ UNCHANGED <<schemas, hostVars, scannerVars, completed, apiVars, call, opVars>>
    /\ NoteInputs

\* entities[k].missingProperties.push('Hacked'), once per array
MutateEntityMissing ==
    /\ \E k \in 1..Len(callerEntities) :
          /\ ~(\E j \in 1..Len(callerEntities[k].missingProperties) :
                  callerEntities[k].missingProperties[j] = Lit.hacked)
          /\ callerEntities' = [callerEntities EXCEPT
                                   ![k].missingProperties = Append(@, Lit.hacked)]
    /\ UNCHANGED <<heap, schemas, hostVars, scannerVars, completed, apiSchemas, callerSchemas, call, opVars>>
    /\ NoteInputs

MutateEntities ==
    \/ MutateEntityProperty
    \/ MutateEntityNestedValue
    \/ MutateEntityMissing

NextEntities == PluginScan \/ GetEntitiesByType \/ MutateEntities

SpecEntities == InitEntities /\ [][NextEntities]_vars

----------------------------------------------------------------------------
(* Single methods of the scanner, called one at a time *)

\* the two sides given to compareLinksUsingAPI
LinkOperands ==
    {
      <<"P">>,                                                   \* 'P'
      <<"[","[","P","]","]">>,                                   \* '[[P]]'
      <<" ","[","[","P","]","]"," ">>,                           \* ' [[P]] '
      <<"[","[","e","/","P",".","m","d","|","P","]","]">>,       \* '[[e/P.md|P]]'
      <<"e","/","P">>,                                           \* 'e/P'
      <<"[","[","p","]","]">>,                                   \* '[[p]]'
      <<"[","[","g","h","]","]">>,                               \* '[[gh]]'
      <<"[","[","G","H","]","]">>,                               \* '[[GH]]'
      <<"[","[","o","]","]">>,                                   \* '[[o]]'
      <<"[","[","a","]","]">>,                                   \* '[[a]]'
      <<"a">>,                                                   \* 'a'
      <<"[","[","|","d","]","]">>                                \* '[[|d]]'
    }

\* the strings given to the other link methods
LinkStrings ==
    LinkOperands \cup {
      <<"p">>,                                                   \* 'p'
      <<"[","[","P","|","d","]","]">>,                           \* '[[P|d]]'
      <<"[","["," ","P"," ","|","d","]","]">>,                   \* '[[ P |d]]'
      <<"[","[","]","]">>,                                       \* '[[]]'
      <<"[","[","e","/","P",".","m","d","]","]">>,               \* '[[e/P.md]]'
      <<"[","[","P",".","m","d","]","]">>,                       \* '[[P.md]]'
      <<"[","P","]">>,                                           \* '[P]'
      <<"[","[","a","\n","b","]","]">>,                          \* '[[a\nb]]'
      <<>>                                                       \* ''
    }

\* the values given to comparePropertyValues as the actual value
ActualValues ==
    { Undefined, Null,
      Str(<<"G","i">>), Str(<<"g","i">>), Str(<<"G","I"," ">>),   \* 'Gi', 'gi', 'GI '
      Str(<<"1">>), Str(<<"x">>), Str(<<"P">>),                   \* '1', 'x', 'P'
      Str(Lit.linkP), Str(<<"[","[","g","h","]","]">>),              \* '[[P]]', '[[gh]]'
      Num(1), Num(0), Bool(TRUE), Bool(FALSE), Ref(CallAddr(1)), Ref(CallAddr(8)) }

\* ... and as the expected value: the same, and the arrays of expected values
ExpectedValues == ActualValues \cup {Ref(CallAddr(i)) : i \in 2..5}

\* the frontmatter objects given to getMissingProperties and matchesSchema
CallFrontmatters == {CallAddr(i) : i \in 6..9}

Union ==
    Schema(<<"U","n","i","o","n">>,
           <<Entry(Lit.email, Ref(CallAddr(11))), Entry(Lit.name, Ref(CallAddr(10))),
             Entry(Lit.role, Ref(CallAddr(12)))>>,
           [NoCriteria EXCEPT !.requiredProperties = Ref(CallAddr(13))])

Repeated ==
    Schema(<<"R","e","p","e","a","t","e","d">>,
           <<Entry(Lit.name, Ref(CallAddr(15)))>>,
           [NoCriteria EXCEPT !.requiredProperties = Ref(CallAddr(14))])

Inherited ==
    Schema(<<"I","n","h","e","r","i","t","e","d">>,
           <<Entry(Lit.constructor, Ref(CallAddr(17)))>>,
           [NoCriteria EXCEPT !.requiredProperties = Ref(CallAddr(16))])

CallSchemas == {Union, Repeated, Inherited, Generic, Anything}

Called(op, args, ret) == [op |-> op, args |-> args, ret |-> ret]

InitCalls ==
    /\ heap = InitialHeap
    /\ cache = CacheOf(<<2, 5, 3>>)
    /\ resolver \in ResolverKinds
    /\ hostChanges = 0
    /\ schemas = <<Person, Generic>>
    /\ ScannerIdle
    /\ ApiIdle

\* a single method reads the scanner's collaborators and changes nothing
ReadOnly ==
    UNCHANGED <<heap, schemas, hostVars, scannerVars, completed, apiVars, scansSinceChange,
                opVars>>

CallIsObsidianLink ==
    /\ \E value \in LinkStrings :
          call' = Called("isObsidianLink", <<value>>, isObsidianLink(value))
    /\ ReadOnly

CallExtractLinkPath ==
    /\ \E value \in LinkStrings :
          call' = Called("extractLinkPath", <<value>>, extractLinkPath(value))
    /\ ReadOnly

CallCompareFilePathWithString ==
    /\ \E f \in FileIds : \E compareString \in LinkStrings :
          call' = Called("compareFilePathWithString", <<f, compareString>>,
                         compareFilePathWithString(f, compareString))
    /\ ReadOnly

CallCompareLinksUsingAPI ==
    /\ \E actualValue \in LinkOperands : \E expectedValue \in LinkOperands :
          call' = Called("compareLinksUsingAPI", <<actualValue, expectedValue>>,
                         compareLinksUsingAPI(actualValue, expectedValue))
    /\ ReadOnly

CallComparePropertyValues ==
    /\ \E actualValue \in ActualValues : \E expectedValue \in ExpectedValues :
          call' = Called("comparePropertyValues", <<actualValue, expectedValue>>,
                         comparePropertyValues(actualValue, expectedValue))
    /\ ReadOnly

CallGetMissingProperties ==
    /\ \E fm \in CallFrontmatters : \E schema \in CallSchemas :
          call' = Called("getMissingProperties", <<fm, schema>>,
                         getMissingProperties(fm, schema))
    /\ ReadOnly

CallMatchesSchema ==
    /\ \E f \in FileIds : \E fm \in CallFrontmatters : \E schema \in CallSchemas :
          call' = Called("matchesSchema", <<f, fm, schema>>, matchesSchema(f, fm, schema))
    /\ ReadOnly

\* the link methods
NextLinks ==
    \/ CallIsObsidianLink
    \/ CallExtractLinkPath
    \/ CallCompareFilePathWithString
    \/ CallCompareLinksUsingAPI

SpecLinks == InitCalls /\ [][NextLinks]_vars

\* the value comparator, the schema matcher and the missing-property analysis
NextValues ==
    \/ CallComparePropertyValues
    \/ CallGetMissingProperties
    \/ CallMatchesSchema

SpecValues == InitCalls /\ [][NextValues]_vars

\* the parts the schemas given to getEntityTemplate are made of: properties,
\* requiredProperties and propertyValues (a plain value, a link, an array of
\* acceptable values, falsy values)
TemplateProperties ==
    <<<<>>, <<Entry(Lit.name, Ref(CallAddr(10)))>>,
      <<Entry(Lit.email, Ref(CallAddr(11))), Entry(Lit.name, Ref(CallAddr(10))),
        Entry(Lit.role, Ref(CallAddr(12)))>>>>

TemplateRequired == <<Undefined, Ref(CallAddr(13)), Ref(CallAddr(14)), Ref(CallAddr(16))>>

TemplateValues == <<Undefined, Ref(CallAddr(6)), Ref(4), Ref(CallAddr(19)), Ref(CallAddr(7))>>

\* getEntityTemplate(schema.name) of an API service that caches the schema;
\* the object it returns is a new one
CallGetEntityTemplate ==
    /\ \E p \in 1..Len(TemplateProperties), r \in 1..Len(TemplateRequired),
          v \in 1..Len(TemplateValues) :
          \E schema \in {Schema(<<"T">>, TemplateProperties[p],
                                [NoCriteria EXCEPT !.requiredProperties = TemplateRequired[r],
                                                   !.propertyValues = TemplateValues[v]])} :
             /\ heap' = [heap EXCEPT ![CallAddr(18)] =
                            Map(getEntityTemplate(<<schema>>, schema.name))]
             /\ call' = Called("getEntityTemplate", <<schema>>, Ref(CallAddr(18)))
    /\ UNCHANGED <<schemas, hostVars, scannerVars, completed, apiVars, scansSinceChange,
                   opVars>>

NextTemplates == CallGetEntityTemplate

SpecTemplates == InitCalls /\ [][NextTemplates]_vars

----------------------------------------------------------------------------
(* The plugin's operations, interleaved at their awaits *)

\* what SchemaManager.loadSchemas can return: the content of the schema file
\* is the user's
LoadableSchemas == {<<Person, Generic>>, <<Tagged, Generic>>, <<Anything>>}

\* a scan that awaits the host once before it returns
scanAwaitsTheHost == <<"getFirstLinkpathDest">>

\* the awaits in the body of EntityScanner.scanEntities: none, the body runs
\* from `this.entityInstances = []` to its return without leaving the thread
scanAwaits == <<>>

\* the state when onload is about to make its `// Initial scan`: the schemas
\* are loaded and the API service has its copy of them
InitPlugin ==
    /\ heap = InitialHeap
    /\ cache \in {CacheOf(<<2, 5, 3>>), CacheOf(<<0, 6, 2>>)}
    /\ resolver = "index"
    /\ hostChanges = 0
    /\ schemas \in LoadableSchemas
    /\ ScannerIdle
    /\ apiSchemas = copySchemas(schemas)
    /\ callerSchemas = <<>>
    /\ callerEntities = <<>>

\* operation op is at a step of this kind; the commands can run once onload
\* has returned to the event loop, which it does after calling the initial scan
Running(op, kind) ==
    /\ pc[op] <= Len(Program[op])
    /\ Program[op][pc[op]] = kind
    /\ op # "load" => pc["load"] # 1

\* no continuation waits in the microtask queue.  The promise of
\* EntityScanner.scanEntities is settled when it is awaited, so the code after
\* that await runs before the event loop takes its next task: a command, or
\* the completion of a load, a save or a bulk operation
NoMicrotask ==
    \A o \in DOMAIN Program : ~(Running(o, "update") /\ o \notin building)

\* the positions after a step of op that returned or threw: the next step, or
\* when op has ended its first step again for a command, which can be run
\* again, and none for onload
After(op, returned) ==
    [pc EXCEPT ![op] = IF returned /\ pc[op] < Len(Program[op]) THEN pc[op] + 1
                       ELSE IF op = "load" THEN Len(Program[op]) + 1 ELSE 1]

\* reloadSchemas calls schemaManager.reloadSchemas(), performBulkPropertyAddition
\* calls bulkOperations.performBulkPropertyAddition(...) (offered by the preview
\* modal when the type has entities); both await the result
Wait(op) ==
    /\ Running(op, "wait")
    /\ NoMicrotask
    /\ op = "bulk" => entityInstances # <<>>
    /\ pc' = After(op, TRUE)
    /\ UNCHANGED <<heap, schemas, hostVars, scannerVars, completed, apiVars, call, building,
                   taskVars>>
    /\ NoteInputs

\* reloadSchemas: `this.settings.schemas = await ...; await this.saveSettings()`
Assign(op) ==
    /\ Running(op, "assign")
    /\ NoMicrotask
    /\ \E loaded \in LoadableSchemas : schemas' = loaded
    /\ pc' = After(op, TRUE)
    /\ UNCHANGED <<heap, hostVars, scannerVars, completed, apiVars, call, building, taskVars>>
    /\ NoteInputs

\* EntitySchemaPlugin.scanEntities up to its await: the call of
\* entityScanner.scanEntities(this.settings.schemas).  When the scan throws the
\* operation ends with a rejected promise
ScannerCall(op) ==
    /\ Running(op, "scan")
    /\ NoMicrotask
    /\ IF Len(scanAwaits) = 0
       THEN /\ scanEntities(schemas)
            /\ completed' = IF scanOutcome' = "resolved"
                            THEN completed \cup {entityInstances'}
                            ELSE completed
            /\ pc' = After(op, scanOutcome' = "resolved")
            /\ UNCHANGED building
       ELSE /\ entityInstances' = <<>>
            /\ building' = building \cup {op}
            /\ pc' = After(op, TRUE)
            /\ UNCHANGED <<scanOutcome, resolverCalls, notice, completed>>
    /\ NoteScan
    /\ UNCHANGED <<heap, schemas, hostVars, apiVars, call, taskVars>>

\* the continuation of an operation after `await ...scanEntities(...)`:
\* `this.apiService.updateSchemas(this.settings.schemas)`, in scanEntities and
\* once more in reloadSchemas.  An operation whose scan has not returned
\* continues with the return of the scan
UpdateSchemasAfter(op) ==
    /\ Running(op, "update")
    /\ IF op \in building
       THEN /\ scanEntities(schemas)
            /\ completed' = IF scanOutcome' = "resolved"
                            THEN completed \cup {entityInstances'}
                            ELSE completed
            /\ building' = building \ {op}
            /\ pc' = IF scanOutcome' = "resolved" THEN pc ELSE After(op, FALSE)
            /\ UNCHANGED apiSchemas
       ELSE /\ apiSchemas' = copySchemas(schemas)
            /\ pc' = After(op, TRUE)
            /\ UNCHANGED <<scannerVars, completed, building>>
    /\ UNCHANGED <<heap, schemas, hostVars, callerSchemas, callerEntities, call, taskVars>>
    /\ NoteInputs

NextPlugin ==
    \E op \in DOMAIN Program :
        Wait(op) \/ Assign(op) \/ ScannerCall(op) \/ UpdateSchemasAfter(op)

SpecPlugin == InitPlugin /\ [][NextPlugin]_vars

----------------------------------------------------------------------------
(* Bulk operations on the files of the vault (src/bulk-operations.ts) *)

\* the line addPropertyToFrontmatter builds for propertyName 'level' and
\* defaultValue 'senior': `${propertyName}: ${this.formatValue(defaultValue)}`,
\* where formatValue puts a string between double quotes
NewProperty == "level: \"senior\""

\* closingLine is the line that ends the match of /^---\n([\s\S]*?)\n---/ in
\* the content, 0 when the content does not match: the first line is `---`
\* and the match ends at the first later line of dashes that a line separates
\* from it.  Without a match a new block is put before the content, with one
\* the property becomes the last line of the block
addPropertyToFrontmatter(content, newProperty) ==
    LET closingLine ==
            IF /\ Len(content) >= 3
               /\ content[1] = "---"
               /\ \E i \in 3..Len(content) : content[i] = "---"
            THEN CHOOSE i \in 3..Len(content) :
                    /\ content[i] = "---"
                    /\ \A j \in 3..(i - 1) : content[j] # "---"
            ELSE 0
        insertAt(i) ==
            IF i = 0
            THEN <<"---", newProperty, "---", "">> \o content
            ELSE SubSeq(content, 1, i - 1) \o <<newProperty>>
                     \o SubSeq(content, i, Len(content))
    IN  insertAt(closingLine)

\* the entity lists a bulk operation is called with, each entity given by the
\* name of its file
BulkEntityLists == {<<>>, <<"a">>, <<"a", "b">>, <<"b", "a">>, <<"a", "a">>}

\* the scanner and the API service at rest, no plugin operation under way
Quiescent ==
    /\ heap = InitialHeap
    /\ cache = CacheOf(<<2, 5, 3>>)
    /\ resolver = "index"
    /\ hostChanges = 0
    /\ schemas = <<Person, Generic>>
    /\ entityInstances = <<>>
    /\ scanOutcome = "none"
    /\ resolverCalls = 0
    /\ notice = -1
    /\ completed = {<<>>}
    /\ scansSinceChange = 0
    /\ call = NoCall
    /\ pc = [op \in DOMAIN Program |-> 1]
    /\ building = {}
    /\ ApiIdle

InitBulk ==
    /\ Quiescent
    /\ files = InitialFiles
    /\ backups = <<>>
    /\ backupFolder \in BOOLEAN
    /\ backupBeforeOperations \in BOOLEAN
    /\ bulk = NoBulk
    /\ schemaFile = NoFile
    /\ schemaSource = "hardcoded"
    /\ registered = TRUE
    /\ waiters = [c \in Consumers |-> NoWait]

\* a bulk operation changes the vault and its own frame, nothing else
BulkOnly ==
    UNCHANGED <<heap, schemas, hostVars, scannerVars, completed, apiVars, scansSinceChange,
                call, pc, building, backupBeforeOperations, schemaFile, schemaSource,
                registered, waiters>>

\* a loop whose body makes no backup
nextEntityUnsaved(frame) ==
    IF frame.i < Len(frame.entities)
    THEN [frame EXCEPT !.i = frame.i + 1, !.at = "read"]
    ELSE [frame EXCEPT !.at = "returned"]

\* the head of `for (const entity of entities)` and the first statement of its
\* body: the next entity's file is read, for its backup when backups are
\* enabled; after the last entity the Notice is shown and the counts returned
nextEntity(frame) ==
    IF frame.i < Len(frame.entities)
    THEN [frame EXCEPT !.i = frame.i + 1,
                       !.at = IF backupBeforeOperations THEN "readForBackup" ELSE "read"]
    ELSE [frame EXCEPT !.at = "returned"]

\* a catch that lets the error end the operation
rethrown(frame) == [frame EXCEPT !.at = "rejected"]

\* `catch (error) { console.error(...); errorCount++; }`
caught(frame) == nextEntity([frame EXCEPT !.errorCount = frame.errorCount + 1])

\* the call: `settings = this.getSettings()`, and with backups enabled the
\* call of adapter.exists
PerformBulkPropertyAddition ==
    /\ bulk.at = "idle"
    /\ \E entities \in BulkEntityLists :
          bulk' = IF backupBeforeOperations
                  THEN [bulk EXCEPT !.entities = entities, !.at = "exists"]
                  ELSE nextEntity([bulk EXCEPT !.entities = entities])
    /\ UNCHANGED <<files, backups, backupFolder>>
    /\ BulkOnly

\* `if (!await this.app.vault.adapter.exists(backupFolder))`: outside the try,
\* a rejection of the host ends the operation
Exists ==
    /\ bulk.at = "exists"
    /\ \E answered \in BOOLEAN :
          bulk' = IF ~answered THEN [bulk EXCEPT !.at = "rejected"]
                  ELSE IF backupFolder THEN nextEntity(bulk)
                  ELSE [bulk EXCEPT !.at = "createFolder"]
    /\ UNCHANGED <<files, backups, backupFolder>>
    /\ BulkOnly

\* `await this.app.vault.createFolder(backupFolder)`, outside the try as well
CreateFolder ==
    /\ bulk.at = "createFolder"
    /\ \E created \in BOOLEAN :
          /\ backupFolder' = created
          /\ bulk' = IF created THEN nextEntity(bulk) ELSE [bulk EXCEPT !.at = "rejected"]
    /\ UNCHANGED <<files, backups>>
    /\ BulkOnly

\* `const content = await this.app.vault.read(entity.file)` of the backup
ReadForBackup ==
    /\ bulk.at = "readForBackup"
    /\ \E read \in BOOLEAN :
          bulk' = IF read
                  THEN [bulk EXCEPT !.content = files[bulk.entities[bulk.i]], !.at = "create"]
                  ELSE caught(bulk)
    /\ UNCHANGED <<files, backups, backupFolder>>
    /\ BulkOnly

\* `await this.app.vault.create(backupPath, content)`; the host refuses a path
\* that exists, which is the path of a backup of a file of the same name
\* made in the same millisecond
Create ==
    /\ bulk.at = "create"
    /\ \E created \in BOOLEAN :
          /\ backups' = IF created
                        THEN Append(backups, [name |-> bulk.entities[bulk.i],
                                              content |-> bulk.content])
                        ELSE backups
          /\ bulk' = IF created THEN [bulk EXCEPT !.at = "read"] ELSE caught(bulk)
    /\ UNCHANGED <<files, backupFolder>>
    /\ BulkOnly

\* `const content = await this.app.vault.read(entity.file)` and, when it is
\* read, the call of addPropertyToFrontmatter and of vault.modify
Read ==
    /\ bulk.at = "read"
    /\ \E read \in BOOLEAN :
          bulk' = IF read
                  THEN [bulk EXCEPT
                          !.content = addPropertyToFrontmatter(files[bulk.entities[bulk.i]],
                                                               NewProperty),
                          !.at = "modify"]
                  ELSE caught(bulk)
    /\ UNCHANGED <<files, backups, backupFolder>>
    /\ BulkOnly

\* `await this.app.vault.modify(entity.file, updatedContent); successCount++`
Modify ==
    /\ bulk.at = "modify"
    /\ \E modified \in BOOLEAN :
          /\ files' = IF modified
                      THEN [files EXCEPT ![bulk.entities[bulk.i]] = bulk.content]
                      ELSE files
          /\ bulk' = IF modified
                     THEN nextEntity([bulk EXCEPT !.successCount = bulk.successCount + 1])
                     ELSE caught(bulk)
    /\ UNCHANGED <<backups, backupFolder>>
    /\ BulkOnly

NextBulk ==
    PerformBulkPropertyAddition \/ Exists \/ CreateFolder \/ ReadForBackup \/ Create
        \/ Read \/ Modify

SpecBulk == InitBulk /\ [][NextBulk]_vars

----------------------------------------------------------------------------
(* Loading the schemas (src/schema-manager.ts) *)

\* what JSON.parse returns for an array ("list", items are values) or an
\* object ("map", items are entries)
Parsed(kind, items) == [t |-> "object", v |-> [k |-> kind, items |-> items]]

\* `typeof value`
typeOf(value) == IF value.t = "null" THEN "object" ELSE value.t

\* Array.isArray for a parsed value
isList(value) == value.t = "object" /\ value.v.k = "list"

\* `value.key` for a value that is neither null nor undefined
member(value, key) ==
    IF /\ value.t = "object"
       /\ value.v.k = "map"
       /\ \E i \in 1..Len(value.v.items) : value.v.items[i].key = key
    THEN value.v.items[CHOOSE i \in 1..Len(value.v.items) : value.v.items[i].key = key].val
    ELSE Undefined

\* Object.values(value)
valuesOf(value) ==
    IF value.v.k = "list" THEN value.v.items
    ELSE [i \in 1..Len(value.v.items) |-> value.v.items[i].val]

AllowedTypes ==
    {Lit.string, <<"n","u","m","b","e","r">>, <<"b","o","o","l","e","a","n">>,
     <<"a","r","r","a","y">>, <<"o","b","j","e","c","t">>}

validateProperties(properties) ==
    IF typeOf(properties) # "object" \/ properties.t = "null"
    THEN FALSE
    ELSE \A i \in 1..Len(valuesOf(properties)) :
            LET defined(prop) ==
                    /\ typeOf(prop) = "object"
                    /\ prop.t # "null"
                    /\ typeOf(member(prop, "type")) = "string"
                    /\ member(prop, "type").v \in AllowedTypes
            IN  defined(valuesOf(properties)[i])

validateMatchCriteria(criteria) ==
    IF typeOf(criteria) # "object" \/ criteria.t = "null"
    THEN FALSE
    ELSE LET mistyped(field, type) ==
                 /\ Truthy(field)
                 /\ IF type = "array" THEN ~isList(field) ELSE typeOf(field) # type
         IN  /\ ~mistyped(member(criteria, "requiredProperties"), "array")
             /\ ~mistyped(member(criteria, "folderPath"), "string")
             /\ ~mistyped(member(criteria, "tagPattern"), "string")
             /\ ~mistyped(member(criteria, "namePattern"), "string")
             /\ ~mistyped(member(criteria, "propertyValues"), "object")

\* "true", "false", or "TypeError" when `schema.name` is read of a null
\* element, which passes `typeof schema === 'object'`; every() stops at the
\* first element that fails
validateSchemas(parsed) ==
    LET RECURSIVE everyFrom(_)
        everyFrom(i) ==
            IF i > Len(parsed.v.items) THEN "true"
            ELSE LET check(schema) ==
                         IF typeOf(schema) # "object" THEN "false"
                         ELSE IF schema.t = "null" THEN "TypeError"
                         ELSE IF /\ typeOf(member(schema, "name")) = "string"
                                 /\ typeOf(member(schema, "properties")) = "object"
                                 /\ typeOf(member(schema, "matchCriteria")) = "object"
                                 /\ validateProperties(member(schema, "properties"))
                                 /\ validateMatchCriteria(member(schema, "matchCriteria"))
                              THEN everyFrom(i + 1)
                              ELSE "false"
                 IN  check(parsed.v.items[i])
    IN  IF ~isList(parsed) THEN "false" ELSE everyFrom(1)

getDefaultSchemas ==
    LET definition(type, required) ==
            Parsed("map", <<Entry("type", Str(type)), Entry("required", Bool(required))>>)
        criteria(entity) ==
            Parsed("map",
                   <<Entry("requiredProperties", Parsed("list", <<Str(Lit.name), Str(Lit.is)>>)),
                     Entry("folderPath", Str(<<"a","t","l","a","s","/","n","o","t","e","s">>)),
                     Entry("propertyValues", Parsed("map", <<Entry("is", Str(entity))>>))>>)
    IN  Parsed("list",
          <<Parsed("map",
              <<Entry("name", Str(<<"P","e","r","s","o","n">>)),
                Entry("properties",
                      Parsed("map", <<Entry("name", definition(Lit.string, TRUE)),
                                      Entry("role", definition(Lit.string, FALSE)),
                                      Entry("team", definition(Lit.string, FALSE)),
                                      Entry("email", definition(Lit.string, FALSE))>>)),
                Entry("matchCriteria",
                      criteria(<<"a","t","l","a","s","/","e","n","t","i","t","i","e","s","/",
                                 "p","e","r","s","o","n">>)),
                Entry("description",
                      Str(<<"I","n","d","i","v","i","d","u","a","l"," ","p","e","r","s","o","n",
                            " ","e","n","t","i","t","y">>))>>),
            Parsed("map",
              <<Entry("name", Str(<<"T","e","a","m">>)),
                Entry("properties",
                      Parsed("map", <<Entry("name", definition(Lit.string, TRUE)),
                                      Entry("members", definition(<<"a","r","r","a","y">>, FALSE)),
                                      Entry("lead", definition(Lit.string, FALSE))>>)),
                Entry("matchCriteria",
                      criteria(<<"a","t","l","a","s","/","e","n","t","i","t","i","e","s","/",
                                 "t","e","a","m">>)),
                Entry("description",
                      Str(<<"T","e","a","m"," ","o","r"," ","g","r","o","u","p"," ",
                            "e","n","t","i","t","y">>))>>)>>)

\* loadSchemas for a schema file in the given state: what it returns and the
\* type of the source it records.  Every await and call between `try` and
\* `catch` can throw; each of them leads to the fallback after the catch
loadSchemas(file) ==
    LET fallback == [schemas |-> getDefaultSchemas, source |-> "hardcoded"]
    IN  IF file.state = "absent" THEN fallback
        ELSE IF file.state \in {"unreadable", "not JSON"} THEN fallback
        ELSE IF validateSchemas(file.value) = "true"
             THEN [schemas |-> file.value, source |-> "file"]
             ELSE fallback

\* the values a schema file holds under the keys of a schema; Undefined
\* stands for a key the object does not have
NameValues == <<Undefined, Str(<<"X">>), Num(1)>>

PropertiesValues ==
    <<Undefined, Null, Str(<<"p">>), Parsed("list", <<>>), Parsed("map", <<>>),
      Parsed("map", <<Entry("p", Parsed("map", <<Entry("type", Str(Lit.string))>>))>>),
      Parsed("map", <<Entry("p", Parsed("map", <<Entry("type", Str(<<"d","a","t","e">>))>>))>>),
      Parsed("map", <<Entry("p", Str(Lit.string))>>)>>

CriteriaValues ==
    <<Undefined, Null, Parsed("map", <<>>),
      Parsed("map", <<Entry("folderPath", Str(<<"a">>))>>),
      Parsed("map", <<Entry("folderPath", Num(0))>>),
      Parsed("map", <<Entry("folderPath", Num(5))>>),
      Parsed("map", <<Entry("requiredProperties", Parsed("list", <<Str(Lit.name)>>))>>),
      Parsed("map", <<Entry("requiredProperties", Str(Lit.name))>>),
      Parsed("map", <<Entry("requiredProperties", Str(<<>>))>>),
      Parsed("map", <<Entry("tagPattern", Bool(FALSE))>>),
      Parsed("map", <<Entry("propertyValues", Str(<<"x">>))>>)>>

\* the object with the entries that are not Undefined
objectOf(entries) == Parsed("map", SelectSeq(entries, LAMBDA e : e.val.t # "undefined"))

Json(value) == [state |-> "json", value |-> value]

\* what the schema file can parse to when it is not an array of one object
OtherJson ==
    <<Null, Parsed("map", <<>>), Parsed("list", <<>>), Parsed("list", <<Null>>),
      Parsed("list", <<Str(<<"X">>)>>)>>

\* a file every reading of the validation accepts
GoodFile ==
    Json(Parsed("list", <<objectOf(<<Entry("name", Str(<<"X">>)),
                                   Entry("properties", Parsed("map", <<>>)),
                                   Entry("matchCriteria", Parsed("map", <<>>))>>)>>))

InitLoad ==
    /\ Quiescent
    /\ BulkIdle
    /\ \/ \E state \in {"absent", "unreadable", "not JSON"} :
             schemaFile = [state |-> state, value |-> Undefined]
       \/ \E i \in 1..Len(OtherJson) : schemaFile = Json(OtherJson[i])
       \/ \E n \in 1..Len(NameValues), p \in 1..Len(PropertiesValues),
             c \in 1..Len(CriteriaValues) :
             schemaFile = Json(Parsed("list",
                              <<objectOf(<<Entry("name", NameValues[n]),
                                           Entry("properties", PropertiesValues[p]),
                                           Entry("matchCriteria", CriteriaValues[c])>>)>>))
    /\ schemaSource = "hardcoded"
    /\ registered = TRUE
    /\ waiters = [c \in Consumers |-> NoWait]

\* loading reads the schema file and changes the source the manager records
LoaderOnly ==
    UNCHANGED <<heap, schemas, hostVars, scannerVars, completed, apiVars, scansSinceChange,
                pc, building, bulkVars, registered, waiters>>

\* a call of loadSchemas, or of reloadSchemas, which returns what loadSchemas returns
LoadSchemas ==
    /\ \E r \in {loadSchemas(schemaFile)} :
          /\ schemaSource' = r.source
          /\ call' = Called("loadSchemas", <<schemaFile>>, r.schemas)
    /\ UNCHANGED schemaFile
    /\ LoaderOnly

\* the user removes the schema file or puts a valid one in its place
SchemaFileChange ==
    /\ \/ schemaFile.state # "absent" /\ schemaFile' = NoFile
       \/ schemaFile' = GoodFile
    /\ UNCHANGED <<schemaSource, call>>
    /\ LoaderOnly

NextLoad == LoadSchemas \/ SchemaFileChange

SpecLoad == InitLoad /\ [][NextLoad]_vars

----------------------------------------------------------------------------
(* Waiting for the API (src/api.ts) *)

\* the timeouts, in milliseconds, the consumers wait with
Timeouts == {0, 100, 200, 250}

InitWait ==
    /\ Quiescent
    /\ BulkIdle
    /\ schemaFile = NoFile
    /\ schemaSource = "hardcoded"
    /\ registered \in BOOLEAN
    /\ waiters = [c \in Consumers |-> NoWait]

\* registering and waiting change the window's key and the consumers' frames
WaitOnly ==
    UNCHANGED <<heap, schemas, hostVars, scannerVars, completed, apiVars, scansSinceChange,
                call, pc, building, bulkVars, schemaFile, schemaSource>>

\* registerAPI when the plugin loads, unregisterAPI when it unloads
Registration ==
    /\ registered' = ~registered
    /\ UNCHANGED waiters
    /\ WaitOnly

\* the executor of the promise: the immediate check, and without the API the
\* start of the interval with `attempts = 0`
WaitForEntitySchemaAPI(c) ==
    /\ waiters[c].at = "idle"
    /\ \E timeout \in Timeouts :
          waiters' = [waiters EXCEPT ![c] =
                         IF registered
                         THEN [at |-> "resolved", timeout |-> timeout, attempts |-> 0,
                               settlements |-> 1]
                         ELSE [at |-> "polling", timeout |-> timeout, attempts |-> 0,
                               settlements |-> 0]]
    /\ UNCHANGED registered
    /\ WaitOnly

\* the callback of setInterval(..., 100), which runs while the interval is
\* not cleared; `maxAttempts = timeout / 100` is not rounded, and
\* attempts >= timeout / 100 exactly when attempts * 100 >= timeout
Poll(c) ==
    /\ waiters[c].at = "polling"
    /\ LET attempted(w) ==
               IF registered
               THEN [w EXCEPT !.at = "resolved", !.settlements = w.settlements + 1]
               ELSE IF w.attempts * 100 >= w.timeout
               THEN [w EXCEPT !.at = "rejected", !.settlements = w.settlements + 1]
               ELSE w
       IN  waiters' = [waiters EXCEPT ![c] =
                          attempted([waiters[c] EXCEPT !.attempts = waiters[c].attempts + 1])]
    /\ UNCHANGED registered
    /\ WaitOnly

NextWait == Registration \/ \E c \in Consumers : WaitForEntitySchemaAPI(c) \/ Poll(c)

SpecWait == InitWait /\ [][NextWait]_vars

----------------------------------------------------------------------------
(* Claims about the scanner *)

\* a step of Spec that is a scanEntities call (HostChange counts its changes)
ScanStep == hostChanges' = hostChanges

Matches(f, i) == cache[f] # 0 /\ matchesSchema(f, cache[f], schemas[i]).r = "T"

FirstMatching(f, i) == Matches(f, i) /\ \A h \in 1..(i - 1) : ~Matches(f, h)

\* the schemas of `schemas` an instance's entityType names
SchemasNamed(name) == {i \in 1..Len(schemas) : schemas[i].name = name}

\* C1: an instance produced by a scan carries the name of the first schema of
\* the sequence that its file matches, whatever later schemas match too; and a
\* scan that ran to completion produced an instance for every file that
\* matches some schema.
C1_FirstMatchWins ==
    [][ScanStep =>
         /\ \A k \in 1..Len(entityInstances') : \A i \in 1..Len(schemas) :
               FirstMatching(entityInstances'[k].file, i)
                   => entityInstances'[k].entityType = schemas[i].name
         /\ scanOutcome' = "resolved" =>
               \A f \in FileIds : (\E i \in 1..Len(schemas) : Matches(f, i))
                   => \E k \in 1..Len(entityInstances') : entityInstances'[k].file = f]_vars

\* a held instance of the first schema whose file also matches a later schema
\* with more criteria
C1_Witness ==
    /\ scanOutcome = "resolved"
    /\ schemas = <<Generic, Person>>
    /\ \E k \in 1..Len(entityInstances) :
          /\ entityInstances[k].properties = Ref(cache[entityInstances[k].file])
          /\ Matches(entityInstances[k].file, 1)
          /\ Matches(entityInstances[k].file, 2)
          /\ entityInstances[k].entityType = Generic.name

\* C2: no scan produces an instance for a file without frontmatter or with an
\* empty frontmatter mapping.
C2_SkipsUngroundedFiles ==
    [][ScanStep =>
         \A k \in 1..Len(entityInstances') :
            /\ cache[entityInstances'[k].file] # 0
            /\ heap[cache[entityInstances'[k].file]].items # <<>>]_vars

\* a tag of the frontmatter (scalar or list) contains the pattern
HasTagContaining(fm, pattern) ==
    /\ hasOwn(fm, Lit.tags)
    /\ \/ getKey(fm, Lit.tags).t = "string" /\ includes(getKey(fm, Lit.tags).v, pattern)
       \/ /\ isArray(getKey(fm, Lit.tags))
          /\ \E i \in 1..Len(heap[Addr(getKey(fm, Lit.tags))].items) :
                /\ heap[Addr(getKey(fm, Lit.tags))].items[i].t = "string"
                /\ includes(heap[Addr(getKey(fm, Lit.tags))].items[i].v, pattern)

\* C3: an instance of a schema with a tagPattern comes from a file one of
\* whose tags contains the pattern.
C3_TagPatternRequiresTag ==
    [][ScanStep =>
         \A k \in 1..Len(entityInstances') : \A i \in SchemasNamed(entityInstances'[k].entityType) :
            Truthy(schemas[i].matchCriteria.tagPattern)
                => HasTagContaining(cache[entityInstances'[k].file],
                                    schemas[i].matchCriteria.tagPattern.v)]_vars

\* the file is in the folder or in one of its subfolders
InFolder(path, folder) ==
    startsWith(path, IF endsWith(folder, <<"/">>) THEN folder ELSE folder \o <<"/">>)

\* C4: an instance of a schema with a folderPath comes from a file located in
\* that folder or in a subfolder of it.
C4_FolderPathIsAFolder ==
    [][ScanStep =>
         \A k \in 1..Len(entityInstances') : \A i \in SchemasNamed(entityInstances'[k].entityType) :
            Truthy(schemas[i].matchCriteria.folderPath)
                => InFolder(Files[entityInstances'[k].file].path,
                            schemas[i].matchCriteria.folderPath.v)]_vars

\* C5: the held result set is the initial empty list or the complete result
\* of a scan that ran to completion.
C5_HeldIsACompleteResult == entityInstances \in completed

\* C6: the held result set has at most one instance per file.
C6_OneInstancePerFile ==
    \A k1, k2 \in 1..Len(entityInstances) :
        entityInstances[k1].file = entityInstances[k2].file => k1 = k2

\* two files hold instances and one of them matches every schema of a
\* sequence of several schemas
C6_Witness ==
    /\ scanOutcome = "resolved"
    /\ Len(entityInstances) >= 2
    /\ Len(schemas) >= 2
    /\ \E k \in 1..Len(entityInstances) : \A i \in 1..Len(schemas) :
          Matches(entityInstances[k].file, i)

\* C9: no scan throws a TypeError on the shape of a file's metadata.
C9_NoThrowOnMetadataShape == scanOutcome # "TypeError"

\* C10: a scan during which the link resolver threw fails with that error,
\* shows no result notice and completes no result.
C10_ResolverErrorPropagates ==
    [][ScanStep /\ resolver = "throws" /\ resolverCalls' > 0 =>
         /\ scanOutcome' = "HostError"
         /\ notice' = notice
         /\ completed' = completed]_vars

\* a scan failed with the resolver's error after a first file was matched
C10_Witness ==
    /\ resolver = "throws"
    /\ resolverCalls > 0
    /\ scanOutcome = "HostError"
    /\ entityInstances # <<>>

----------------------------------------------------------------------------
(* Claims about the API service *)

\* C7: no mutation a caller makes, at any depth, to the schema array it passed
\* to updateSchemas or to an array getEntitySchemas returned changes what
\* getEntitySchemas, getEntityTypeNames and getEntityTemplate return.
C7_SchemasAreDeepCopies ==
    [][MutateSchemas => ApiView(apiSchemas)' = ApiView(apiSchemas)]_vars

\* what the scanner's queries return: the held instances, and the instances
\* of each type
QueryView ==
    [held   |-> HeldView,
     byType |-> [i \in 1..Len(schemas) |->
                    [k \in 1..Len(getEntitiesByType(schemas[i].name)) |->
                        [getEntitiesByType(schemas[i].name)[k] EXCEPT
                            !.properties = DeepEntries(@)]]]]

\* C8: no mutation a consumer makes, at any depth, to an entity that
\* getEntitiesByType returned changes the instances the scanner holds or the
\* result of a later query.
C8_EntitiesAreDeepCopies ==
    [][MutateEntities => QueryView' = QueryView]_vars

----------------------------------------------------------------------------
(* Claims about the missing-property analysis *)

\* the elements of seq at the indices that satisfy Keep, in order
RECURSIVE Kept(_, _, _)
Kept(seq, Keep(_), i) ==
    IF i > Len(seq) THEN <<>>
    ELSE (IF Keep(i) THEN <<seq[i]>> ELSE <<>>) \o Kept(seq, Keep, i + 1)

\* the keys of schema.properties marked required that the metadata lacks
AbsentRequiredKeys(fm, schema) ==
    LET keys == [i \in 1..Len(schema.properties) |-> schema.properties[i].key]
        Keep(i) == /\ StrictEq(getKey(Addr(schema.properties[i].val), Lit.required), Bool(TRUE))
                   /\ ~hasOwn(fm, keys[i])
    IN  Kept(keys, Keep, 1)

\* the names of matchCriteria.requiredProperties the metadata lacks, each once
\* and none that `listed` already has
AbsentRequiredNames(fm, schema, listed) ==
    IF schema.matchCriteria.requiredProperties.t = "undefined" THEN <<>>
    ELSE LET items == heap[Addr(schema.matchCriteria.requiredProperties)].items
             names == [j \in 1..Len(items) |-> items[j].v]
             Keep(j) == /\ ~hasOwn(fm, names[j])
                        /\ \A h \in 1..Len(listed) : listed[h] # names[j]
                        /\ \A h \in 1..(j - 1) : names[h] # names[j]
         IN  Kept(names, Keep, 1)

\* C11: for every metadata mapping and schema, getMissingProperties returns,
\* without duplicates and in this order, the keys of schema.properties marked
\* required that are absent from the metadata, then the names of
\* matchCriteria.requiredProperties that are absent and not already listed.
C11_MissingIsTheOrderedUnion ==
    call.op = "getMissingProperties" =>
        call.ret = AbsentRequiredKeys(call.args[1], call.args[2])
                     \o AbsentRequiredNames(call.args[1], call.args[2],
                                            AbsentRequiredKeys(call.args[1], call.args[2]))

----------------------------------------------------------------------------
(* Claims about the link methods *)

\* what the claim gives for two sides: by the files both resolve to, by the
\* one file and the other side's string, or by the two targets
LinkAwareEqual(actualValue, expectedValue) ==
    LET actualTarget   == extractLinkPath(actualValue)
        expectedTarget == extractLinkPath(expectedValue)
        actualFile     == getFirstLinkpathDest(actualTarget)
        expectedFile   == getFirstLinkpathDest(expectedTarget)
    IN  IF actualFile # 0 /\ expectedFile # 0 THEN actualFile = expectedFile
        ELSE IF actualFile # 0 THEN compareFilePathWithString(actualFile, expectedValue)
        ELSE IF expectedFile # 0 THEN compareFilePathWithString(expectedFile, actualValue)
        ELSE toLowerCase(actualTarget) = toLowerCase(expectedTarget)

DocumentedVariations(f) ==
    { <<"[","[">> \o Files[f].path \o <<"|">> \o Files[f].basename \o <<"]","]">>,
      <<"[","[">> \o Files[f].path \o <<"]","]">>,
      <<"[","[">> \o Files[f].name \o <<"]","]">>,
      Files[f].basename,
      pathNoExt(f) }

BracketForm(s) ==
    /\ Len(s) >= 4
    /\ startsWith(s, <<"[","[">>)
    /\ endsWith(s, <<"]","]">>)
    /\ \A i \in 3..(Len(s) - 2) : s[i] # "\n"

\* the inner text of a reference, up to the first '|' if there is one
InnerTarget(s) ==
    LET inner == SubSeq(s, 3, Len(s) - 2)
        bars  == {i \in 1..Len(inner) : inner[i] = "|"}
    IN  IF bars = {} THEN inner
        ELSE SubSeq(inner, 1, (CHOOSE i \in bars : \A j \in bars : i <= j) - 1)

\* C14: isObsidianLink(s) is true iff s, trimmed, has the whole-string form
\* [[...]]; extractLinkPath(s) is, for a reference (also one with surrounding
\* whitespace or with nothing before the '|'), the trimmed inner text before
\* the optional '|display' part, and s itself for any other string.
C14_ReferenceAndTarget ==
    /\ call.op = "isObsidianLink" => (call.ret <=> BracketForm(trim(call.args[1])))
    /\ call.op = "extractLinkPath" =>
          call.ret = IF BracketForm(trim(call.args[1]))
                     THEN trim(InnerTarget(trim(call.args[1])))
                     ELSE call.args[1]

----------------------------------------------------------------------------
(* Claims about the value comparator and about presence *)

Absent(x) == x.t \in {"null", "undefined"}

\* C15: when the expected value is an array and the comparison returns, it is
\* true iff the comparison with at least one element is true: false for the
\* empty array, and true for an actual null against an array that holds null.
C15_ArrayIsAnyElement ==
    (/\ call.op = "comparePropertyValues"
     /\ isArray(call.args[2])
     /\ call.ret.r \in {"T", "F"}) =>
        ((call.ret.r = "T") <=>
            \E i \in 1..Len(heap[Addr(call.args[2])].items) :
                comparePropertyValues(call.args[1], heap[Addr(call.args[2])].items[i]).r = "T")

\* null compared with [null]
C15_Witness ==
    /\ call.op = "comparePropertyValues"
    /\ call.args = <<Null, Ref(CallAddr(2))>>
    /\ call.ret.r = "T"

\* C16: for a non-array expected value, if either operand is null or
\* undefined the comparison is true iff both are the same absence value.
C16_AbsenceIsStrict ==
    (/\ call.op = "comparePropertyValues"
     /\ ~isArray(call.args[2])
     /\ (Absent(call.args[1]) \/ Absent(call.args[2]))) =>
        call.ret.r = IF /\ Absent(call.args[1])
                        /\ Absent(call.args[2])
                        /\ call.args[1].t = call.args[2].t
                     THEN "T" ELSE "F"

\* null compared with undefined
C16_Witness ==
    /\ call.op = "comparePropertyValues"
    /\ call.args = <<Null, Undefined>>
    /\ call.ret.r = "F"

\* C17: for two present, non-array operands: two strings of which neither is
\* a link compare equal iff their lower-cased forms are identical, untrimmed;
\* operands that are not both strings compare equal iff they are strictly
\* equal, and the comparison never fails.
C17_FoldedOrStrict ==
    (/\ call.op = "comparePropertyValues"
     /\ ~Absent(call.args[1]) /\ ~Absent(call.args[2])
     /\ ~isArray(call.args[1]) /\ ~isArray(call.args[2])) =>
        IF call.args[1].t = "string" /\ call.args[2].t = "string"
        THEN (~isObsidianLink(call.args[1].v) /\ ~isObsidianLink(call.args[2].v)) =>
                call.ret.r = IF toLowerCase(call.args[1].v) = toLowerCase(call.args[2].v)
                             THEN "T" ELSE "F"
        ELSE call.ret.r = IF StrictEq(call.args[1], call.args[2]) THEN "T" ELSE "F"

\* 'GI ' compared with 'gi': equal only if trimmed
C17_Witness ==
    /\ call.op = "comparePropertyValues"
    /\ call.args = <<Str(<<"G","I"," ">>), Str(<<"g","i">>)>>
    /\ call.ret.r = "F"

\* requiredProperties is the only criterion of the schema
OnlyRequiredProperties(schema) ==
    /\ schema.matchCriteria.requiredProperties.t = "object"
    /\ \A criterion \in {"folderPath", "tagPattern", "namePattern", "propertyValues"} :
          schema.matchCriteria[criterion].t = "undefined"

\* C18: presence is decided by the key, whatever its value: a frontmatter
\* that holds every name of requiredProperties satisfies the criterion, also
\* with the values '', false, 0 and null, and no key the frontmatter holds is
\* reported by getMissingProperties.
C18_PresenceIsKeyExistence ==
    /\ (/\ call.op = "matchesSchema"
        /\ OnlyRequiredProperties(call.args[3])
        /\ \A i \in 1..Len(heap[Addr(call.args[3].matchCriteria.requiredProperties)].items) :
              hasOwn(call.args[2],
                     heap[Addr(call.args[3].matchCriteria.requiredProperties)].items[i].v))
          => call.ret.r = "T"
    /\ call.op = "getMissingProperties" =>
          \A j \in 1..Len(call.ret) : ~hasOwn(call.args[1], call.ret[j])

\* {name:'', is:false, role:0, email:null} against requiredProperties [name, is]
C18_Witness ==
    /\ call.op = "matchesSchema"
    /\ call.args[2] = CallAddr(7)
    /\ call.args[3] = Union
    /\ call.ret.r = "T"

----------------------------------------------------------------------------
(* Claims about repeated scans and about the views of the held instances *)

\* C19: a scan that follows a scan, with the files, the metadata, the resolver
\* and the schemas unchanged in between, leaves the scanner holding a result
\* structurally equal to the one it held: same files, entity types,
\* properties and missingProperties, in the same order.
C19_ScanIsIdempotent ==
    [][(ScanStep /\ scansSinceChange >= 1) => HeldView' = HeldView]_vars

\* two scans in a row after the host changed the metadata, with instances held
C19_Witness ==
    /\ scansSinceChange = 2
    /\ hostChanges >= 1
    /\ Len(entityInstances) >= 2

\* the held instances with missing properties
Drifting == {k \in 1..Len(entityInstances) : entityInstances[k].missingProperties # <<>>}

\* C20: in every state getValidationSummary returns total = the number of
\* held instances, valid = the number of them with no missing property, and
\* one issue string per remaining instance, and getEntitiesWithDrift returns
\* exactly the remaining instances; total - valid = issues = drift entities.
C20_SummaryAndDriftAgree ==
    /\ getValidationSummary.total = Len(entityInstances)
    /\ getValidationSummary.valid = Len(entityInstances) - Cardinality(Drifting)
    /\ Len(getValidationSummary.issues) = Cardinality(Drifting)
    /\ Len(getEntitiesWithDrift) = Cardinality(Drifting)
    /\ \A k \in Drifting :
          \E j \in 1..Len(getEntitiesWithDrift) : getEntitiesWithDrift[j] = entityInstances[k]
    /\ \A j \in 1..Len(getEntitiesWithDrift) :
          /\ getEntitiesWithDrift[j].missingProperties # <<>>
          /\ \E k \in Drifting : entityInstances[k] = getEntitiesWithDrift[j]
          /\ j <= Len(getValidationSummary.issues)
          /\ startsWith(getValidationSummary.issues[j],
                        Files[getEntitiesWithDrift[j].file].name)
    /\ getValidationSummary.total - getValidationSummary.valid
          = Len(getValidationSummary.issues)

\* a valid instance and an instance with missing properties are held
C20_Witness ==
    /\ getValidationSummary.valid >= 1
    /\ Len(getValidationSummary.issues) >= 1

----------------------------------------------------------------------------
(* Claims about the API's counts and the plugin's operations *)

\* the type names a consumer asks about: the names in the schema cache and of
\* the held instances, the empty string, an unknown name, values that are not
\* strings
AskedTypes ==
    {Str(apiSchemas[i].name) : i \in 1..Len(apiSchemas)}
        \cup {Str(entityInstances[k].entityType) : k \in 1..Len(entityInstances)}
        \cup {Str(<<>>), Str(<<"Z">>), Num(5), Undefined}

\* the type name is a non-empty string that names a schema of the API's cache
Configured(x) ==
    /\ x.t = "string"
    /\ x.v # <<>>
    /\ \E i \in 1..Len(apiSchemas) : apiSchemas[i].name = x.v

\* the held instances of the type
HeldOfType(type) == {k \in 1..Len(entityInstances) : entityInstances[k].entityType = type}

\* C21: for a type name that is not in the API's schema cache, or is empty or
\* not a string, getEntityCount returns 0 and getEntityValidation returns
\* total = valid = withIssues = 0 with no issues; for a configured type,
\* getEntityCount is the number of held instances of the type, and
\* getEntityValidation has that number as total, total = valid + withIssues and
\* exactly withIssues issue strings
C21_CountAndValidationPerType ==
    \A x \in AskedTypes :
        IF Configured(x)
        THEN /\ getEntityCount(apiSchemas, x) = Cardinality(HeldOfType(x.v))
             /\ getEntityValidation(apiSchemas, x).total = Cardinality(HeldOfType(x.v))
             /\ getEntityValidation(apiSchemas, x).total =
                   getEntityValidation(apiSchemas, x).valid
                     + getEntityValidation(apiSchemas, x).withIssues
             /\ Len(getEntityValidation(apiSchemas, x).issues) =
                   getEntityValidation(apiSchemas, x).withIssues
        ELSE /\ getEntityCount(apiSchemas, x) = 0
             /\ getEntityValidation(apiSchemas, x) =
                   [total |-> 0, valid |-> 0, withIssues |-> 0, issues |-> <<>>]

\* a configured type with a valid instance and one whose instance has issues
C21_Witness ==
    /\ \E x \in AskedTypes :
          Configured(x) /\ getEntityValidation(apiSchemas, x).valid >= 1
    /\ \E x \in AskedTypes :
          Configured(x) /\ getEntityValidation(apiSchemas, x).withIssues >= 1

\* C22: getEntitySummary returns an entry for every schema name in the API's
\* schema cache, and the value of each entry is the number of instances of
\* that type the scanner holds
C22_SummaryCountsEveryType ==
    /\ ~getEntitySummary(apiSchemas).threw
    /\ \A i \in 1..Len(apiSchemas) :
          \E j \in 1..Len(getEntitySummary(apiSchemas).entries) :
              getEntitySummary(apiSchemas).entries[j].key = apiSchemas[i].name
    /\ \A j \in 1..Len(getEntitySummary(apiSchemas).entries) :
          getEntitySummary(apiSchemas).entries[j].val =
              Cardinality(HeldOfType(getEntitySummary(apiSchemas).entries[j].key))

\* C27: under every interleaving of the plugin's scan triggers, no scan begins
\* while another scan is still building or replacing the held result set
C27_ScansDoNotOverlap ==
    [][\A op \in DOMAIN Program :
          (Running(op, "scan") /\ pc'[op] # pc[op]) => building = {}]_vars

\* the scan command has made its scan while a reload awaits its save and a
\* bulk operation its writes, both about to scan
C27_Witness ==
    /\ Running("command", "update")
    /\ Running("reload", "scan")
    /\ Running("bulk", "scan")
    /\ scanOutcome = "resolved"

\* C28: in every state reachable through the plugin's operations, the await
\* points inside them included, every held instance has an entityType that
\* hasEntityType reports as configured, the keys of getEntitySummary are the
\* names of getEntityTypeNames and getEntitySummary()[T] = getEntityCount(T)
\* for every key T
C28_HeldTypesAreConfigured ==
    /\ \A k \in 1..Len(entityInstances) :
          hasEntityType(apiSchemas, entityInstances[k].entityType)
    /\ ~getEntitySummary(apiSchemas).threw
    /\ {getEntitySummary(apiSchemas).entries[j].key :
            j \in 1..Len(getEntitySummary(apiSchemas).entries)}
          = {getEntityTypeNames(apiSchemas)[i] : i \in 1..Len(apiSchemas)}
    /\ \A j \in 1..Len(getEntitySummary(apiSchemas).entries) :
          getEntitySummary(apiSchemas).entries[j].val =
              getEntityCount(apiSchemas, Str(getEntitySummary(apiSchemas).entries[j].key))

\* C29: every instance a scan produced lists in missingProperties no name of
\* its schema's matchCriteria.requiredProperties, and every name it lists is a
\* key of the schema's properties that is marked required
C29_DriftIsOfRequiredProperties ==
    \A k \in 1..Len(entityInstances) : \A i \in SchemasNamed(entityInstances[k].entityType) :
        /\ Truthy(schemas[i].matchCriteria.requiredProperties) =>
              \A j \in 1..Len(heap[Addr(schemas[i].matchCriteria.requiredProperties)].items) :
                  \A m \in 1..Len(entityInstances[k].missingProperties) :
                      entityInstances[k].missingProperties[m] #
                          heap[Addr(schemas[i].matchCriteria.requiredProperties)].items[j].v
        /\ \A m \in 1..Len(entityInstances[k].missingProperties) :
              \E p \in 1..Len(schemas[i].properties) :
                  /\ schemas[i].properties[p].key = entityInstances[k].missingProperties[m]
                  /\ Truthy(getKey(Addr(schemas[i].properties[p].val), Lit.required))

\* a held instance with drift whose schema has requiredProperties
C29_Witness ==
    \E k \in 1..Len(entityInstances) : \E i \in SchemasNamed(entityInstances[k].entityType) :
        /\ entityInstances[k].missingProperties # <<>>
        /\ Truthy(schemas[i].matchCriteria.requiredProperties)
        /\ heap[Addr(schemas[i].matchCriteria.requiredProperties)].items # <<>>

----------------------------------------------------------------------------
(* Claims about bulk operations *)

\* the lines a bulk operation has added to the files of the vault, one for
\* every modification that took place
addedLines ==
    LET linesIn(f) == {i \in 1..Len(files[f]) : files[f][i] = NewProperty}
    IN  Cardinality(linesIn("a")) + Cardinality(linesIn("b"))

\* C23: performBulkPropertyAddition isolates the failures of single files: once
\* the loop over the entities has begun the operation is never rejected, it
\* returns only when every entity of the list has been processed, and then
\* success + errors is the number of entities supplied and success is the
\* number of modifications made to the files.
C23_BulkIsolatesFileFailures ==
    /\ bulk.at = "rejected" => bulk.i = 0
    /\ bulk.at = "returned" =>
          /\ bulk.i = Len(bulk.entities)
          /\ bulk.successCount + bulk.errorCount = Len(bulk.entities)
          /\ bulk.successCount = addedLines

\* the first of two entities failed and the second one was modified
C23_Witness ==
    /\ bulk.at = "returned"
    /\ bulk.entities = <<"a", "b">>
    /\ files["a"] = InitialFiles["a"]
    /\ files["b"] # InitialFiles["b"]
    /\ bulk.errorCount = 1
    /\ bulk.successCount = 1

\* C24: with backupBeforeOperations enabled a file is modified only when a backup
\* of that file holding the content the file has before the modification
\* exists, and a backup that cannot be created leaves the file as it is and
\* is counted as an error; with the setting disabled no backup is created
\* and the backup folder is neither checked nor created.
C24_BackupBeforeModification ==
    [][/\ (backupBeforeOperations /\ files' # files) =>
              \E k \in 1..Len(backups) :
                  /\ backups[k].name = bulk.entities[bulk.i]
                  /\ backups[k].content = files[bulk.entities[bulk.i]]
       /\ (bulk.at = "create" /\ backups' = backups) =>
              /\ files' = files
              /\ bulk'.errorCount = bulk.errorCount + 1
              /\ bulk'.at \in {"readForBackup", "returned"}
       /\ ~backupBeforeOperations =>
              /\ backups' = <<>>
              /\ backupFolder' = backupFolder
              /\ bulk'.at \notin {"exists", "createFolder", "readForBackup", "create"}
      ]_vars

\* with backups enabled, a file was backed up and modified and the other
\* entity of the list was counted as an error and left as it was
C24_Witness ==
    /\ backupBeforeOperations
    /\ bulk.at = "returned"
    /\ bulk.entities = <<"b", "a">>
    /\ Len(backups) = 1
    /\ backups[1] = [name |-> "b", content |-> InitialFiles["b"]]
    /\ files["b"] = addPropertyToFrontmatter(InitialFiles["b"], NewProperty)
    /\ files["a"] = InitialFiles["a"]
    /\ bulk.errorCount = 1

----------------------------------------------------------------------------
(* Claims about loading the schemas *)

\* the schema file exists, can be read, parses as JSON and holds schemas that
\* have a string name, a properties object whose definitions carry one of
\* the five allowed types, and match criteria whose fields have their types
FileIsValid(file) ==
    LET wellTyped(criteria) ==
            LET typed(key, type) ==
                    \/ member(criteria, key).t \in {"undefined", "null"}
                    \/ IF type = "array" THEN isList(member(criteria, key))
                       ELSE member(criteria, key).t = type
            IN  /\ criteria.t = "object"
                /\ typed("requiredProperties", "array")
                /\ typed("folderPath", "string")
                /\ typed("tagPattern", "string")
                /\ typed("namePattern", "string")
                /\ typed("propertyValues", "object")
        definitions(properties) ==
            /\ properties.t = "object"
            /\ \A i \in 1..Len(valuesOf(properties)) :
                  /\ valuesOf(properties)[i].t = "object"
                  /\ member(valuesOf(properties)[i], "type").t = "string"
                  /\ member(valuesOf(properties)[i], "type").v \in AllowedTypes
        schemaIsValid(schema) ==
            /\ schema.t = "object"
            /\ member(schema, "name").t = "string"
            /\ definitions(member(schema, "properties"))
            /\ wellTyped(member(schema, "matchCriteria"))
    IN  /\ file.state = "json"
        /\ isList(file.value)
        /\ \A i \in 1..Len(file.value.v.items) : schemaIsValid(file.value.v.items[i])

\* C25: loadSchemas returns the schemas of the schema file and records the source
\* 'file' exactly when the file exists, can be read, parses as JSON and is
\* valid; in every other case it returns the default Person and Team schemas
\* and records the source 'hardcoded'.
C25_FileSchemasIffValid ==
    call.op = "loadSchemas" =>
        IF FileIsValid(call.args[1])
        THEN call.ret = call.args[1].value /\ schemaSource = "file"
        ELSE call.ret = getDefaultSchemas /\ schemaSource = "hardcoded"

----------------------------------------------------------------------------
(* Claims about waiting for the API *)

\* C26: waitForEntitySchemaAPI(timeout) settles exactly once; it resolves only
\* with the API present, when it is called or at a poll whose number does
\* not exceed timeout/100, and a call or poll that finds the API within that
\* limit resolves; a poll beyond the limit rejects; once the promise has
\* settled no further poll takes place.
C26_WaitSettlesWithinTheLimit ==
    [][\A c \in Consumers :
          LET settles(w, how) == waiters[c].at # how /\ w.at = how
              withinLimit(w)  == w.attempts * 100 <= w.timeout
              step(w) ==
                  /\ w.settlements <= 1
                  /\ (w.at \in {"resolved", "rejected"}) <=> (w.settlements = 1)
                  /\ settles(w, "resolved") => (registered /\ withinLimit(w))
                  /\ (w # waiters[c] /\ registered /\ withinLimit(w)) => w.at = "resolved"
                  /\ (w # waiters[c] /\ ~withinLimit(w)) => w.at = "rejected"
                  /\ settles(w, "rejected") => ~(registered /\ withinLimit(w))
                  /\ waiters[c].at \in {"resolved", "rejected"} => w = waiters[c]
          IN  step(waiters'[c])
      ]_vars

----------------------------------------------------------------------------
(* Claims about templates *)

\* C30: the object getEntityTemplate returns for a configured schema has every
\* key of the schema's requiredProperties, compares equal to the expected
\* value of every propertyValues entry of the schema, also when that value
\* is an array of acceptable values, and has no missing property.
C30_TemplateMatchesItsSchema ==
    call.op = "getEntityTemplate" =>
        LET roundTrip(template, schema, criteria) ==
                /\ Truthy(criteria.requiredProperties) =>
                       hasRequiredProperties(template, criteria)
                /\ Truthy(criteria.propertyValues) =>
                       everyPropertyValue(template,
                                          heap[Addr(criteria.propertyValues)].items, 1).r # "F"
                /\ getMissingProperties(template, schema) = <<>>
        IN  roundTrip(Addr(call.ret), call.args[1], call.args[1].matchCriteria)

====
